---- MODULE Spec2Model ----
(***************************************************************************)
(* Model of lib/ofp-actions.c: conversion between OpenFlow 1.0 / 1.1 / NX  *)
(* wire actions and the internal "ofpacts" list.                           *)
(*                                                                         *)
(* Wire data are sequences of bytes (0..255).  Scalars of up to 16 bits    *)
(* are integers; 32- and 64-bit scalars are kept as big-endian byte        *)
(* sequences so that no value exceeds TLC's integer range.                 *)
(* An ofpbuf of ofpacts is the sequence of its entries; every entry is a   *)
(* record [type, compat, len, d] where d is the payload of its struct.     *)
(***************************************************************************)
EXTENDS Integers, Sequences, FiniteSets, TLC

(***************************************************************************)
(* Bounds of the model.                                                    *)
(***************************************************************************)
MaxActions == 2
MaxInsts == 2
MaxCalls == 5

(***************************************************************************)
(* Error codes (enum ofperr).  0 is "no error".                            *)
(***************************************************************************)
OFPERR_NONE == "0"
OFPERR_OFPBRC_BAD_LEN == "OFPBRC_BAD_LEN"
OFPERR_OFPBAC_BAD_LEN == "OFPBAC_BAD_LEN"
OFPERR_OFPBAC_BAD_TYPE == "OFPBAC_BAD_TYPE"
OFPERR_OFPBAC_BAD_VENDOR == "OFPBAC_BAD_VENDOR"
OFPERR_OFPBAC_BAD_ARGUMENT == "OFPBAC_BAD_ARGUMENT"
OFPERR_OFPBAC_BAD_OUT_PORT == "OFPBAC_BAD_OUT_PORT"
OFPERR_OFPBIC_UNKNOWN_INST == "OFPBIC_UNKNOWN_INST"
OFPERR_OFPBIC_UNSUP_INST == "OFPBIC_UNSUP_INST"
OFPERR_OFPBIC_BAD_EXPERIMENTER == "OFPBIC_BAD_EXPERIMENTER"
OFPERR_OFPBIC_BAD_LEN == "OFPBIC_BAD_LEN"
OFPERR_NXBIC_DUP_TYPE == "NXBIC_DUP_TYPE"

(***************************************************************************)
(* Wire constants.                                                         *)
(***************************************************************************)
OFP_ACTION_ALIGN == 8
OFP11_INSTRUCTION_ALIGN == 8
OFPACT_ALIGNTO == 8
SizeofOfpAction == 8
SizeofOfp11Instruction == 8
SizeofNxActionHeader == 16
NoteOffset == 10
OFPAT10_VENDOR == 65535
OFPAT11_EXPERIMENTER == 65535
OFPIT11_EXPERIMENTER == 65535
NX_VENDOR_ID == <<0, 0, 35, 32>>
OFPP_MAX == 65280
OFPP_IN_PORT == 65528
OFPP_TABLE == 65529
OFPP_NORMAL == 65530
OFPP_FLOOD == 65531
OFPP_ALL == 65532
OFPP_CONTROLLER == 65533
OFPP_LOCAL == 65534
IP_DSCP_MASK == 252
OFPUTIL_ACTION_INVALID == "OFPUTIL_ACTION_INVALID"

(***************************************************************************)
(* Byte helpers (byte-order.h): offsets are 0-based as in the C structs.   *)
(***************************************************************************)
U8(b, o) == b[o + 1]
U16(b, o) == b[o + 1] * 256 + b[o + 2]
Bytes(b, o, n) == SubSeq(b, o + 1, o + n)
Drop(b, n) == SubSeq(b, n + 1, Len(b))
Hi(v) == v \div 256
Lo(v) == v % 256
Be16(v) == <<Hi(v), Lo(v)>>
Zeros(n) == [i \in 1..n |-> 0]
is_all_zeros(b) == \A i \in 1..Len(b) : b[i] = 0
RoundUp8(n) == ((n + 7) \div 8) * 8

(***************************************************************************)
(* State.                                                                  *)
(*   openflow  the caller's input/output ofpbuf of wire bytes              *)
(*   ofpacts   the caller's ofpbuf of ofpacts (sequence of entries)        *)
(*   ret       value returned by the last call                             *)
(*   error     value of the local variable 'error' when the last parse     *)
(*             call returned (the result of the conversion proper)         *)
(*   converted what the ofpacts buffer held when the last parse call      *)
(*             reached its exit, before the final ofpbuf_clear             *)
(*   collab    verdict of the external collaborators (mf_check_src and     *)
(*             the learn/bundle/multipath/autopath/reg_move/reg_load       *)
(*             sub-codecs) in this run                                     *)
(*   call      the last call: its name, its length, max_ports or port      *)
(*             argument, the buffers and the text as they were when it     *)
(*             was made, and the record of the call before it              *)
(*   string    the text that the last ofpacts_format call appended to the  *)
(*             caller's (then empty) dynamic string                        *)
(*   outputs   value returned by the last ofpacts_output_to_port call      *)
(***************************************************************************)
VARIABLES openflow, ofpacts, ret, error, converted, collab, call, string,
          outputs

vars ==
    <<openflow, ofpacts, ret, error, converted, collab, call, string,
      outputs>>

(***************************************************************************)
(* In-memory sizes of the ofpact structs (ofp-actions.h).                  *)
(***************************************************************************)
OfpactSize(type) ==
    CASE type \in {"OFPACT_END", "OFPACT_STRIP_VLAN", "OFPACT_DEC_TTL",
                   "OFPACT_POP_QUEUE", "OFPACT_EXIT"} -> 4
      [] type \in {"OFPACT_OUTPUT", "OFPACT_SET_IPV4_SRC",
                   "OFPACT_SET_IPV4_DST", "OFPACT_SET_QUEUE",
                   "OFPACT_FIN_TIMEOUT", "OFPACT_RESUBMIT"} -> 8
      [] type \in {"OFPACT_SET_VLAN_VID", "OFPACT_SET_VLAN_PCP",
                   "OFPACT_SET_IPV4_DSCP", "OFPACT_SET_L4_SRC_PORT",
                   "OFPACT_SET_L4_DST_PORT"} -> 6
      [] type \in {"OFPACT_SET_ETH_SRC", "OFPACT_SET_ETH_DST"} -> 10
      [] type \in {"OFPACT_CONTROLLER", "OFPACT_ENQUEUE"} -> 12
      [] type \in {"OFPACT_SET_TUNNEL", "OFPACT_NOTE"} -> 16
      [] OTHER -> 32

(***************************************************************************)
(* ofpact_init / ofpact_put: a new entry of 'len' bytes, zeroed, with      *)
(* compat = OFPUTIL_ACTION_INVALID, appended to the buffer; 'd' is the     *)
(* payload the caller stores into it afterwards.                           *)
(***************************************************************************)
ofpact_init(type, len, d) ==
    [type |-> type, compat |-> OFPUTIL_ACTION_INVALID, len |-> len, d |-> d]

\* Variant that stores the length with the padding that follows the entry.
ofpact_put_padded(out, type, len, d) ==
    Append(out, ofpact_init(type, RoundUp8(len), d))

ofpact_put(out, type, len, d) == Append(out, ofpact_init(type, len, d))

ofpact_put_END(out) ==
    ofpact_put(out, "OFPACT_END", OfpactSize("OFPACT_END"), <<>>)

Put(out, type, d) == ofpact_put(out, type, OfpactSize(type), d)

SetCompat(out, code) ==
    [out EXCEPT ![Len(out)] = [@ EXCEPT !.compat = code]]

\* ofpbuf size of an ofpacts buffer: ofpact_put pads the buffer to a
\* multiple of OFPACT_ALIGNTO before it appends an entry.
RECURSIVE OfpbufSize(_)
OfpbufSize(acts) ==
    IF acts = <<>> THEN 0
    ELSE RoundUp8(OfpbufSize(SubSeq(acts, 1, Len(acts) - 1)))
         + acts[Len(acts)].len

\* Offset in the buffer of entry i (of the next entry put, for i past the
\* last one).
StartOf(acts, i) == RoundUp8(OfpbufSize(SubSeq(acts, 1, i - 1)))

\* ofpact_update_len on the entry put last (ofpacts->l2), in a buffer whose
\* tail is at offset 'tail': the entry's len becomes the distance from the
\* entry to the tail.
ofpact_update_len(acts, tail) ==
    [acts EXCEPT ![Len(acts)] =
        [@ EXCEPT !.len = tail - StartOf(acts, Len(acts))]]

\* The payload of an entry of which every byte is zero.
ZeroPayload(type) ==
    CASE type = "OFPACT_END" -> <<>>
      [] type = "OFPACT_OUTPUT" -> [port |-> 0, max_len |-> 0]
      [] type = "OFPACT_SET_VLAN_VID" -> [vlan_vid |-> 0]
      [] type = "OFPACT_NOTE" -> [length |-> 0, data |-> <<>>]

Result(e, out) == [error |-> e, out |-> out]

(***************************************************************************)
(* External collaborators (meta-flow.c, nx-match.c, ofp-util.c, and the    *)
(* sub-codecs).                                                            *)
(***************************************************************************)
mf_check_src(src) == collab

ofputil_check_output_port(port, max_ports) ==
    IF port \in {OFPP_IN_PORT, OFPP_TABLE, OFPP_NORMAL, OFPP_FLOOD,
                 OFPP_ALL, OFPP_CONTROLLER, OFPP_LOCAL}
    THEN OFPERR_NONE
    ELSE IF port < max_ports THEN OFPERR_NONE
    ELSE OFPERR_OFPBAC_BAD_OUT_PORT

\* ofputil_port_from_ofp11: 32-bit OF1.1 port (4 bytes) to 16-bit port.
ofputil_port_from_ofp11(p) ==
    IF p[1] = 0 /\ p[2] = 0 /\ U16(p, 2) < OFPP_MAX
    THEN [error |-> OFPERR_NONE, port |-> U16(p, 2)]
    ELSE IF p[1] = 255 /\ p[2] = 255 /\ p[3] = 255
    THEN [error |-> OFPERR_NONE, port |-> OFPP_MAX + p[4]]
    ELSE [error |-> OFPERR_OFPBAC_BAD_OUT_PORT, port |-> 0]

ofputil_port_to_ofp11(port) ==
    IF port < OFPP_MAX THEN <<0, 0>> \o Be16(port)
    ELSE <<255, 255, 255, port - OFPP_MAX>>

nxm_decode_ofs(ofs_nbits) == ofs_nbits \div 64
nxm_decode_n_bits(ofs_nbits) == (ofs_nbits % 64) + 1
nxm_encode_ofs_nbits(ofs, n_bits) == ofs * 64 + (n_bits - 1)

\* A sub-codec appends its entry (kept as the wire bytes it was given)
\* and returns its own verdict.
SubCodecFromOpenflow(type, a, out) ==
    Result(collab, Put(out, type, [raw |-> a]))

SubCodecToOpenflow(e) == e.d.raw

(***************************************************************************)
(* Converting OpenFlow 1.0 / NX wire actions to ofpacts.  'a' is the byte  *)
(* sequence of one action (header.len bytes), 'out' the ofpacts buffer.    *)
(***************************************************************************)
output_from_openflow10(oao, out) ==
    LET port == U16(oao, 4) IN
    Result(ofputil_check_output_port(port, OFPP_MAX),
           Put(out, "OFPACT_OUTPUT",
               [port |-> port, max_len |-> U16(oao, 6)]))

enqueue_from_openflow10(oae, out) ==
    LET port == U16(oae, 4) IN
    Result(IF port >= OFPP_MAX /\ port # OFPP_IN_PORT /\ port # OFPP_LOCAL
           THEN OFPERR_OFPBAC_BAD_OUT_PORT ELSE OFPERR_NONE,
           Put(out, "OFPACT_ENQUEUE",
               [port |-> port, queue |-> Bytes(oae, 12, 4)]))

\* Variant that leaves the compat of the entry as ofpact_init set it.
resubmit_from_openflow_no_hint(nar, out) ==
    Put(out, "OFPACT_RESUBMIT", [in_port |-> U16(nar, 10), table_id |-> 255])

resubmit_from_openflow(nar, out) ==
    SetCompat(Put(out, "OFPACT_RESUBMIT",
                  [in_port |-> U16(nar, 10), table_id |-> 255]),
              "NXAST_RESUBMIT")

\* Variant that looks at the first reserved byte only.
resubmit_table_from_openflow_pad0(nar, out) ==
    IF U8(nar, 13) # 0
    THEN Result(OFPERR_OFPBAC_BAD_ARGUMENT, out)
    ELSE Result(OFPERR_NONE,
                SetCompat(Put(out, "OFPACT_RESUBMIT",
                              [in_port |-> U16(nar, 10),
                               table_id |-> U8(nar, 12)]),
                          "NXAST_RESUBMIT_TABLE"))

resubmit_table_from_openflow(nar, out) ==
    IF U8(nar, 13) # 0 \/ U8(nar, 14) # 0 \/ U8(nar, 15) # 0
    THEN Result(OFPERR_OFPBAC_BAD_ARGUMENT, out)
    ELSE Result(OFPERR_NONE,
                SetCompat(Put(out, "OFPACT_RESUBMIT",
                              [in_port |-> U16(nar, 10),
                               table_id |-> U8(nar, 12)]),
                          "NXAST_RESUBMIT_TABLE"))

output_reg_from_openflow(naor, out) ==
    IF ~is_all_zeros(Bytes(naor, 18, 6))
    THEN Result(OFPERR_OFPBAC_BAD_ARGUMENT, out)
    ELSE LET src == [field |-> Bytes(naor, 12, 4),
                     ofs |-> nxm_decode_ofs(U16(naor, 10)),
                     n_bits |-> nxm_decode_n_bits(U16(naor, 10))]
         IN Result(mf_check_src(src),
                   Put(out, "OFPACT_OUTPUT_REG",
                       [src |-> src, max_len |-> U16(naor, 16)]))

fin_timeout_from_openflow(naft, out) ==
    Put(out, "OFPACT_FIN_TIMEOUT",
        [fin_idle_timeout |-> U16(naft, 10),
         fin_hard_timeout |-> U16(naft, 12)])

controller_from_openflow(nac, out) ==
    Put(out, "OFPACT_CONTROLLER",
        [max_len |-> U16(nac, 10), controller_id |-> U16(nac, 12),
         reason |-> U8(nac, 14)])

\* Variant that takes the payload to start after the whole fixed struct.
note_from_openflow_sizeof(nan, out) ==
    LET length == U16(nan, 2) - SizeofNxActionHeader IN
    ofpact_put(out, "OFPACT_NOTE", OfpactSize("OFPACT_NOTE") + length,
               [length |-> length,
                data |-> Bytes(nan, SizeofNxActionHeader, length)])

note_from_openflow(nan, out) ==
    LET length == U16(nan, 2) - NoteOffset IN
    ofpact_put(out, "OFPACT_NOTE", OfpactSize("OFPACT_NOTE") + length,
               [length |-> length, data |-> Bytes(nan, NoteOffset, length)])

\* The NXAST_ACTION table of ofp-util.def: subtype, struct size, extensible.
NxastActions ==
    { [subtype |-> 1, code |-> "NXAST_RESUBMIT", size |-> 16, ext |-> FALSE],
      [subtype |-> 2, code |-> "NXAST_SET_TUNNEL", size |-> 16, ext |-> FALSE],
      [subtype |-> 4, code |-> "NXAST_SET_QUEUE", size |-> 16, ext |-> FALSE],
      [subtype |-> 5, code |-> "NXAST_POP_QUEUE", size |-> 16, ext |-> FALSE],
      [subtype |-> 6, code |-> "NXAST_REG_MOVE", size |-> 24, ext |-> FALSE],
      [subtype |-> 7, code |-> "NXAST_REG_LOAD", size |-> 24, ext |-> FALSE],
      [subtype |-> 8, code |-> "NXAST_NOTE", size |-> 16, ext |-> TRUE],
      [subtype |-> 9, code |-> "NXAST_SET_TUNNEL64", size |-> 24,
       ext |-> FALSE],
      [subtype |-> 10, code |-> "NXAST_MULTIPATH", size |-> 32, ext |-> FALSE],
      [subtype |-> 11, code |-> "NXAST_AUTOPATH", size |-> 24, ext |-> FALSE],
      [subtype |-> 12, code |-> "NXAST_BUNDLE", size |-> 32, ext |-> TRUE],
      [subtype |-> 13, code |-> "NXAST_BUNDLE_LOAD", size |-> 32,
       ext |-> TRUE],
      [subtype |-> 14, code |-> "NXAST_RESUBMIT_TABLE", size |-> 16,
       ext |-> FALSE],
      [subtype |-> 15, code |-> "NXAST_OUTPUT_REG", size |-> 24,
       ext |-> FALSE],
      [subtype |-> 16, code |-> "NXAST_LEARN", size |-> 32, ext |-> TRUE],
      [subtype |-> 17, code |-> "NXAST_EXIT", size |-> 16, ext |-> FALSE],
      [subtype |-> 18, code |-> "NXAST_DEC_TTL", size |-> 16, ext |-> FALSE],
      [subtype |-> 19, code |-> "NXAST_FIN_TIMEOUT", size |-> 16,
       ext |-> FALSE],
      [subtype |-> 20, code |-> "NXAST_CONTROLLER", size |-> 16,
       ext |-> FALSE] }

NXAST_SNAT__OBSOLETE == 0
NXAST_DROP_SPOOFED_ARP__OBSOLETE == 3

Decoded(e, code) == [error |-> e, code |-> code]

\* Length check of one row of a decode table.
LengthOk(row, len) == IF row.ext THEN len >= row.size ELSE len = row.size

DecodeRow(rows, len, unknown) ==
    IF rows = {} THEN Decoded(unknown, OFPUTIL_ACTION_INVALID)
    ELSE LET row == CHOOSE r \in rows : TRUE IN
         IF LengthOk(row, len) THEN Decoded(OFPERR_NONE, row.code)
         ELSE Decoded(OFPERR_OFPBAC_BAD_LEN, OFPUTIL_ACTION_INVALID)

\* Variant that does not look at the vendor id.
decode_nxast_action_anyvendor(a) ==
    LET len == U16(a, 2) IN
    IF len < SizeofNxActionHeader
    THEN Decoded(OFPERR_OFPBAC_BAD_LEN, OFPUTIL_ACTION_INVALID)
    ELSE DecodeRow({r \in NxastActions : r.subtype = U16(a, 8)}, len,
                   OFPERR_OFPBAC_BAD_TYPE)

decode_nxast_action(a) ==
    LET len == U16(a, 2) IN
    IF len < SizeofNxActionHeader
    THEN Decoded(OFPERR_OFPBAC_BAD_LEN, OFPUTIL_ACTION_INVALID)
    ELSE IF Bytes(a, 4, 4) # NX_VENDOR_ID
    THEN Decoded(OFPERR_OFPBAC_BAD_VENDOR, OFPUTIL_ACTION_INVALID)
    ELSE DecodeRow({r \in NxastActions : r.subtype = U16(a, 8)}, len,
                   OFPERR_OFPBAC_BAD_TYPE)

\* The OFPAT10_ACTION table of ofp-util.def: type and struct size.
Ofpat10Actions ==
    { [subtype |-> 0, code |-> "OFPAT10_OUTPUT", size |-> 8, ext |-> FALSE],
      [subtype |-> 1, code |-> "OFPAT10_SET_VLAN_VID", size |-> 8,
       ext |-> FALSE],
      [subtype |-> 2, code |-> "OFPAT10_SET_VLAN_PCP", size |-> 8,
       ext |-> FALSE],
      [subtype |-> 3, code |-> "OFPAT10_STRIP_VLAN", size |-> 8,
       ext |-> FALSE],
      [subtype |-> 4, code |-> "OFPAT10_SET_DL_SRC", size |-> 16,
       ext |-> FALSE],
      [subtype |-> 5, code |-> "OFPAT10_SET_DL_DST", size |-> 16,
       ext |-> FALSE],
      [subtype |-> 6, code |-> "OFPAT10_SET_NW_SRC", size |-> 8,
       ext |-> FALSE],
      [subtype |-> 7, code |-> "OFPAT10_SET_NW_DST", size |-> 8,
       ext |-> FALSE],
      [subtype |-> 8, code |-> "OFPAT10_SET_NW_TOS", size |-> 8,
       ext |-> FALSE],
      [subtype |-> 9, code |-> "OFPAT10_SET_TP_SRC", size |-> 8,
       ext |-> FALSE],
      [subtype |-> 10, code |-> "OFPAT10_SET_TP_DST", size |-> 8,
       ext |-> FALSE],
      [subtype |-> 11, code |-> "OFPAT10_ENQUEUE", size |-> 16,
       ext |-> FALSE] }

decode_openflow10_action(a) ==
    IF U16(a, 0) = OFPAT10_VENDOR THEN decode_nxast_action(a)
    ELSE DecodeRow({r \in Ofpat10Actions : r.subtype = U16(a, 0)},
                   U16(a, 2), OFPERR_OFPBAC_BAD_TYPE)

ofpact_from_nxast(a, code, out) ==
    CASE code = "NXAST_RESUBMIT" ->
           Result(OFPERR_NONE, resubmit_from_openflow(a, out))
      [] code = "NXAST_SET_TUNNEL" ->
           Result(OFPERR_NONE,
                  SetCompat(Put(out, "OFPACT_SET_TUNNEL",
                                [tun_id |-> Zeros(4) \o Bytes(a, 12, 4)]),
                            code))
      [] code = "NXAST_SET_QUEUE" ->
           Result(OFPERR_NONE,
                  Put(out, "OFPACT_SET_QUEUE",
                      [queue_id |-> Bytes(a, 12, 4)]))
      [] code = "NXAST_POP_QUEUE" ->
           Result(OFPERR_NONE, Put(out, "OFPACT_POP_QUEUE", <<>>))
      [] code = "NXAST_REG_MOVE" ->
           SubCodecFromOpenflow("OFPACT_REG_MOVE", a, out)
      [] code = "NXAST_REG_LOAD" ->
           SubCodecFromOpenflow("OFPACT_REG_LOAD", a, out)
      [] code = "NXAST_NOTE" ->
           Result(OFPERR_NONE, note_from_openflow(a, out))
      [] code = "NXAST_SET_TUNNEL64" ->
           Result(OFPERR_NONE,
                  SetCompat(Put(out, "OFPACT_SET_TUNNEL",
                                [tun_id |-> Bytes(a, 16, 8)]),
                            code))
      [] code = "NXAST_MULTIPATH" ->
           SubCodecFromOpenflow("OFPACT_MULTIPATH", a, out)
      [] code = "NXAST_AUTOPATH" ->
           SubCodecFromOpenflow("OFPACT_AUTOPATH", a, out)
      [] code \in {"NXAST_BUNDLE", "NXAST_BUNDLE_LOAD"} ->
           SubCodecFromOpenflow("OFPACT_BUNDLE", a, out)
      [] code = "NXAST_OUTPUT_REG" -> output_reg_from_openflow(a, out)
      [] code = "NXAST_RESUBMIT_TABLE" ->
           resubmit_table_from_openflow(a, out)
      [] code = "NXAST_LEARN" ->
           SubCodecFromOpenflow("OFPACT_LEARN", a, out)
      [] code = "NXAST_EXIT" ->
           Result(OFPERR_NONE, Put(out, "OFPACT_EXIT", <<>>))
      [] code = "NXAST_DEC_TTL" ->
           Result(OFPERR_NONE, Put(out, "OFPACT_DEC_TTL", <<>>))
      [] code = "NXAST_FIN_TIMEOUT" ->
           Result(OFPERR_NONE, fin_timeout_from_openflow(a, out))
      [] code = "NXAST_CONTROLLER" ->
           Result(OFPERR_NONE, controller_from_openflow(a, out))

\* The field checks and copies that OpenFlow 1.0 and 1.1 share (the two
\* switch statements have the same bodies for these opcodes).
set_vlan_vid_from_openflow(a, out) ==
    IF Hi(U16(a, 4)) \div 16 # 0
    THEN Result(OFPERR_OFPBAC_BAD_ARGUMENT, out)
    ELSE Result(OFPERR_NONE,
                Put(out, "OFPACT_SET_VLAN_VID", [vlan_vid |-> U16(a, 4)]))

set_vlan_pcp_from_openflow(a, out) ==
    IF U8(a, 4) \div 8 # 0
    THEN Result(OFPERR_OFPBAC_BAD_ARGUMENT, out)
    ELSE Result(OFPERR_NONE,
                Put(out, "OFPACT_SET_VLAN_PCP", [vlan_pcp |-> U8(a, 4)]))

set_nw_tos_from_openflow(a, out) ==
    IF U8(a, 4) % 4 # 0
    THEN Result(OFPERR_OFPBAC_BAD_ARGUMENT, out)
    ELSE Result(OFPERR_NONE,
                Put(out, "OFPACT_SET_IPV4_DSCP", [dscp |-> U8(a, 4)]))

ofpact_from_openflow10(a, out) ==
    LET dec == decode_openflow10_action(a)
        code == dec.code
    IN
    IF dec.error # OFPERR_NONE THEN Result(dec.error, out)
    ELSE
    CASE code = "OFPAT10_OUTPUT" -> output_from_openflow10(a, out)
      [] code = "OFPAT10_SET_VLAN_VID" -> set_vlan_vid_from_openflow(a, out)
      [] code = "OFPAT10_SET_VLAN_PCP" -> set_vlan_pcp_from_openflow(a, out)
      [] code = "OFPAT10_STRIP_VLAN" ->
           Result(OFPERR_NONE, Put(out, "OFPACT_STRIP_VLAN", <<>>))
      [] code = "OFPAT10_SET_DL_SRC" ->
           Result(OFPERR_NONE,
                  Put(out, "OFPACT_SET_ETH_SRC", [mac |-> Bytes(a, 4, 6)]))
      [] code = "OFPAT10_SET_DL_DST" ->
           Result(OFPERR_NONE,
                  Put(out, "OFPACT_SET_ETH_DST", [mac |-> Bytes(a, 4, 6)]))
      [] code = "OFPAT10_SET_NW_SRC" ->
           Result(OFPERR_NONE,
                  Put(out, "OFPACT_SET_IPV4_SRC", [ipv4 |-> Bytes(a, 4, 4)]))
      [] code = "OFPAT10_SET_NW_DST" ->
           Result(OFPERR_NONE,
                  Put(out, "OFPACT_SET_IPV4_DST", [ipv4 |-> Bytes(a, 4, 4)]))
      [] code = "OFPAT10_SET_NW_TOS" -> set_nw_tos_from_openflow(a, out)
      [] code = "OFPAT10_SET_TP_SRC" ->
           Result(OFPERR_NONE,
                  Put(out, "OFPACT_SET_L4_SRC_PORT", [port |-> U16(a, 4)]))
      [] code = "OFPAT10_SET_TP_DST" ->
           Result(OFPERR_NONE,
                  Put(out, "OFPACT_SET_L4_DST_PORT", [port |-> U16(a, 4)]))
      [] code = "OFPAT10_ENQUEUE" -> enqueue_from_openflow10(a, out)
      [] OTHER -> ofpact_from_nxast(a, code, out)

(***************************************************************************)
(* OpenFlow 1.1 actions.                                                   *)
(***************************************************************************)
\* The OFPAT11_ACTION table of ofp-util.def: type and struct size.
Ofpat11Actions ==
    { [subtype |-> 0, code |-> "OFPAT11_OUTPUT", size |-> 16, ext |-> FALSE],
      [subtype |-> 1, code |-> "OFPAT11_SET_VLAN_VID", size |-> 8,
       ext |-> FALSE],
      [subtype |-> 2, code |-> "OFPAT11_SET_VLAN_PCP", size |-> 8,
       ext |-> FALSE],
      [subtype |-> 3, code |-> "OFPAT11_SET_DL_SRC", size |-> 16,
       ext |-> FALSE],
      [subtype |-> 4, code |-> "OFPAT11_SET_DL_DST", size |-> 16,
       ext |-> FALSE],
      [subtype |-> 5, code |-> "OFPAT11_SET_NW_SRC", size |-> 8,
       ext |-> FALSE],
      [subtype |-> 6, code |-> "OFPAT11_SET_NW_DST", size |-> 8,
       ext |-> FALSE],
      [subtype |-> 7, code |-> "OFPAT11_SET_NW_TOS", size |-> 8,
       ext |-> FALSE],
      [subtype |-> 9, code |-> "OFPAT11_SET_TP_SRC", size |-> 8,
       ext |-> FALSE],
      [subtype |-> 10, code |-> "OFPAT11_SET_TP_DST", size |-> 8,
       ext |-> FALSE] }

decode_openflow11_action(a) ==
    IF U16(a, 0) = OFPAT11_EXPERIMENTER THEN decode_nxast_action(a)
    ELSE DecodeRow({r \in Ofpat11Actions : r.subtype = U16(a, 0)},
                   U16(a, 2), OFPERR_OFPBAC_BAD_TYPE)

output_from_openflow11(oao, out) ==
    LET conv == ofputil_port_from_ofp11(Bytes(oao, 4, 4))
        out1 == Put(out, "OFPACT_OUTPUT",
                    [port |-> conv.port, max_len |-> U16(oao, 8)])
    IN IF conv.error # OFPERR_NONE THEN Result(conv.error, out1)
       ELSE Result(ofputil_check_output_port(conv.port, OFPP_MAX), out1)

ofpact_from_openflow11(a, out) ==
    LET dec == decode_openflow11_action(a)
        code == dec.code
    IN
    IF dec.error # OFPERR_NONE THEN Result(dec.error, out)
    ELSE
    CASE code = "OFPAT11_OUTPUT" -> output_from_openflow11(a, out)
      [] code = "OFPAT11_SET_VLAN_VID" -> set_vlan_vid_from_openflow(a, out)
      [] code = "OFPAT11_SET_VLAN_PCP" -> set_vlan_pcp_from_openflow(a, out)
      [] code = "OFPAT11_SET_DL_SRC" ->
           Result(OFPERR_NONE,
                  Put(out, "OFPACT_SET_ETH_SRC", [mac |-> Bytes(a, 4, 6)]))
      [] code = "OFPAT11_SET_DL_DST" ->
           Result(OFPERR_NONE,
                  Put(out, "OFPACT_SET_ETH_DST", [mac |-> Bytes(a, 4, 6)]))
      [] code = "OFPAT11_SET_NW_SRC" ->
           Result(OFPERR_NONE,
                  Put(out, "OFPACT_SET_IPV4_SRC", [ipv4 |-> Bytes(a, 4, 4)]))
      [] code = "OFPAT11_SET_NW_DST" ->
           Result(OFPERR_NONE,
                  Put(out, "OFPACT_SET_IPV4_DST", [ipv4 |-> Bytes(a, 4, 4)]))
      [] code = "OFPAT11_SET_NW_TOS" -> set_nw_tos_from_openflow(a, out)
      [] code = "OFPAT11_SET_TP_SRC" ->
           Result(OFPERR_NONE,
                  Put(out, "OFPACT_SET_L4_SRC_PORT", [port |-> U16(a, 4)]))
      [] code = "OFPAT11_SET_TP_DST" ->
           Result(OFPERR_NONE,
                  Put(out, "OFPACT_SET_L4_DST_PORT", [port |-> U16(a, 4)]))
      [] OTHER -> ofpact_from_nxast(a, code, out)

ofpact_from_openflow(dialect, a, out) ==
    IF dialect = 10 THEN ofpact_from_openflow10(a, out)
    ELSE ofpact_from_openflow11(a, out)

(***************************************************************************)
(* How far into an action the decoders read, as the number of bytes from   *)
(* its start.  The loop has read the type and len fields (4 bytes); the    *)
(* vendor id is bytes 4..8 and the NX subtype bytes 8..10; the converter   *)
(* of an action that was decoded reads no further than the action's len.   *)
(***************************************************************************)
\* Variant that reads the subtype before it compares the length.
NxReadExtent_subtype_first(a) ==
    IF U16(a, 2) < SizeofNxActionHeader THEN 10
    ELSE IF Bytes(a, 4, 4) # NX_VENDOR_ID THEN 10
    ELSE IF decode_nxast_action(a).error # OFPERR_NONE THEN 10
    ELSE U16(a, 2)

NxReadExtent(a) ==
    IF U16(a, 2) < SizeofNxActionHeader THEN 4
    ELSE IF Bytes(a, 4, 4) # NX_VENDOR_ID THEN 8
    ELSE IF decode_nxast_action(a).error # OFPERR_NONE THEN 10
    ELSE U16(a, 2)

ActionReadExtent(dialect, a) ==
    IF U16(a, 0) = (IF dialect = 10 THEN OFPAT10_VENDOR
                    ELSE OFPAT11_EXPERIMENTER)
    THEN NxReadExtent(a)
    ELSE IF (IF dialect = 10 THEN decode_openflow10_action(a)
             ELSE decode_openflow11_action(a)).error # OFPERR_NONE
    THEN 4
    ELSE U16(a, 2)

(***************************************************************************)
(* The action loop.  'in' is the window of n_in action units; the loop     *)
(* state is the offset of the current action and the units left.           *)
(***************************************************************************)
action_is_valid(a, n_actions) ==
    LET len == U16(a, 2) IN
    /\ len % OFP_ACTION_ALIGN = 0
    /\ len >= SizeofOfpAction
    /\ len \div SizeofOfpAction <= n_actions

RECURSIVE ActionLoop(_, _, _, _, _)
ActionLoop(dialect, in, ofs, left, out) ==
    IF left > 0 /\ action_is_valid(Drop(in, ofs), left)
    THEN LET len == U16(in, ofs + 2)
             r == ofpact_from_openflow(dialect, Bytes(in, ofs, len), out)
         IN IF r.error # OFPERR_NONE THEN r
            ELSE ActionLoop(dialect, in, ofs + len,
                            left - len \div SizeofOfpAction, r.out)
    ELSE IF left # 0 THEN Result(OFPERR_OFPBAC_BAD_LEN, out)
    ELSE Result(OFPERR_NONE, ofpact_put_END(out))

\* Variant that takes a window whose actions stop at a bad length as
\* complete.
ofpacts_from_openflow_lenient(dialect, in, n_in, out) ==
    LET r == ActionLoop(dialect, in, 0, n_in, out) IN
    IF r.error = OFPERR_OFPBAC_BAD_LEN
    THEN Result(OFPERR_NONE, ofpact_put_END(r.out))
    ELSE r

ofpacts_from_openflow(dialect, in, n_in, out) ==
    ActionLoop(dialect, in, 0, n_in, out)

\* The tests and iterations of ACTION_FOR_EACH on a window, in order: the
\* offset of the action looked at, the units left, whether the action was
\* valid (an iteration) and how far it was read.
RECURSIVE ActionTrace(_, _, _, _)
ActionTrace(dialect, in, ofs, left) ==
    IF left > 0
    THEN IF action_is_valid(Drop(in, ofs), left)
         THEN LET len == U16(in, ofs + 2)
                  a == Bytes(in, ofs, len)
                  r == ofpact_from_openflow(dialect, a, <<>>)
              IN <<[ofs |-> ofs, left |-> left, valid |-> TRUE,
                    read |-> ActionReadExtent(dialect, a)]>>
                 \o (IF r.error # OFPERR_NONE THEN <<>>
                     ELSE ActionTrace(dialect, in, ofs + len,
                                      left - len \div SizeofOfpAction))
         ELSE <<[ofs |-> ofs, left |-> left, valid |-> FALSE, read |-> 4]>>
    ELSE <<>>

ofpacts_from_openflow10(in, n_in, out) ==
    ofpacts_from_openflow(10, in, n_in, out)

ofpacts_from_openflow11(in, n_in, out) ==
    ofpacts_from_openflow(11, in, n_in, out)

(***************************************************************************)
(* OpenFlow 1.1 instructions.                                              *)
(***************************************************************************)
\* The rows of OVS_INSTRUCTIONS as written: enum, struct size, third
\* argument (a boolean), fourth argument (a string).
OVS_INSTRUCTIONS ==
    { [subtype |-> 1, code |-> "OFPIT11_GOTO_TABLE", size |-> 8,
       arg3 |-> FALSE, arg4 |-> "goto_table"],
      [subtype |-> 2, code |-> "OFPIT11_WRITE_METADATA", size |-> 24,
       arg3 |-> FALSE, arg4 |-> "write_metadata"],
      [subtype |-> 3, code |-> "OFPIT11_WRITE_ACTIONS", size |-> 8,
       arg3 |-> TRUE, arg4 |-> "write_actions"],
      [subtype |-> 4, code |-> "OFPIT11_APPLY_ACTIONS", size |-> 8,
       arg3 |-> TRUE, arg4 |-> "apply_actions"],
      [subtype |-> 5, code |-> "OFPIT11_CLEAR_ACTIONS", size |-> 8,
       arg3 |-> FALSE, arg4 |-> "clear_actions"] }

\* DEFINE_INST(ENUM, STRUCT, NAME, EXTENSIBLE) as decode_openflow11_instruction
\* defines it: EXTENSIBLE is the fourth argument, a string literal, which
\* is true as a C condition.
DEFINE_INST(row) ==
    [subtype |-> row.subtype, code |-> row.code, size |-> row.size,
     ext |-> row.arg4 # ""]

instruction_is_valid(inst, n_instructions) ==
    LET len == U16(inst, 2) IN
    /\ len % OFP11_INSTRUCTION_ALIGN = 0
    /\ len >= SizeofOfp11Instruction
    /\ len \div SizeofOfp11Instruction <= n_instructions

decode_openflow11_instruction(inst) ==
    IF U16(inst, 0) = OFPIT11_EXPERIMENTER
    THEN Decoded(OFPERR_OFPBIC_BAD_EXPERIMENTER, OFPUTIL_ACTION_INVALID)
    ELSE DecodeRow({DEFINE_INST(r) : r \in
                        {x \in OVS_INSTRUCTIONS : x.subtype = U16(inst, 0)}},
                   U16(inst, 2), OFPERR_OFPBIC_UNKNOWN_INST)

InstTypes == {r.code : r \in OVS_INSTRUCTIONS}

\* insts[type] is the offset of the instruction of that type in the
\* region, or NoInst for a null pointer.
NoInst == -1
NoInsts == [t \in InstTypes |-> NoInst]

RECURSIVE InstructionLoop(_, _, _, _)
InstructionLoop(insts, ofs, left, out) ==
    IF left > 0 /\ instruction_is_valid(Drop(insts, ofs), left)
    THEN LET len == U16(insts, ofs + 2)
             dec == decode_openflow11_instruction(Bytes(insts, ofs, len))
         IN IF dec.error # OFPERR_NONE THEN Result(dec.error, out)
            ELSE IF out[dec.code] # NoInst
            THEN Result(OFPERR_NXBIC_DUP_TYPE, out)
            ELSE InstructionLoop(insts, ofs + len,
                                 left - len \div SizeofOfp11Instruction,
                                 [out EXCEPT ![dec.code] = ofs])
    ELSE IF left # 0 THEN Result(OFPERR_OFPBIC_BAD_LEN, out)
    ELSE Result(OFPERR_NONE, out)

\* The tests and iterations of INSTRUCTION_FOR_EACH on a region, like
\* ActionTrace; of an instruction the type and len fields are read.
RECURSIVE InstructionTrace(_, _, _, _)
InstructionTrace(insts, ofs, left, out) ==
    IF left > 0
    THEN IF instruction_is_valid(Drop(insts, ofs), left)
         THEN LET len == U16(insts, ofs + 2)
                  dec == decode_openflow11_instruction(Bytes(insts, ofs, len))
                  step == [ofs |-> ofs, left |-> left, valid |-> TRUE,
                           read |-> 4]
              IN IF dec.error # OFPERR_NONE \/ out[dec.code] # NoInst
                 THEN <<step>>
                 ELSE <<step>>
                      \o InstructionTrace(
                             insts, ofs + len,
                             left - len \div SizeofOfp11Instruction,
                             [out EXCEPT ![dec.code] = ofs])
         ELSE <<[ofs |-> ofs, left |-> left, valid |-> FALSE, read |-> 4]>>
    ELSE <<>>

decode_openflow11_instructions(insts, n_insts) ==
    InstructionLoop(insts, 0, n_insts, NoInsts)

\* The action window of the instruction at offset 'ofs' of the region.
get_actions_from_instruction(insts, ofs) ==
    LET n_actions == (U16(insts, ofs + 2) - SizeofOfp11Instruction)
                         \div OFP11_INSTRUCTION_ALIGN
    IN [actions |-> Bytes(insts, ofs + SizeofOfp11Instruction,
                          n_actions * OFP_ACTION_ALIGN),
        n_actions |-> n_actions]

\* ofpbuf_try_pull: the first n bytes, or no pull when fewer remain.
ofpbuf_can_pull(b, n) == Len(b) >= n

\* Variant that converts the embedded actions before it looks at the
\* outcome of the framing.
ParseInstructions_actions_first(instructions, n_insts) ==
    LET dec == decode_openflow11_instructions(instructions, n_insts)
        insts == dec.out
        has_apply == insts["OFPIT11_APPLY_ACTIONS"] # NoInst
        w == get_actions_from_instruction(instructions,
                                          insts["OFPIT11_APPLY_ACTIONS"])
        conv == IF has_apply
                THEN ofpacts_from_openflow11(w.actions, w.n_actions, <<>>)
                ELSE Result(OFPERR_NONE, <<>>)
    IN IF conv.error # OFPERR_NONE THEN conv
       ELSE IF dec.error # OFPERR_NONE THEN Result(dec.error, <<>>)
       ELSE IF \/ insts["OFPIT11_GOTO_TABLE"] # NoInst
               \/ insts["OFPIT11_WRITE_METADATA"] # NoInst
               \/ insts["OFPIT11_WRITE_ACTIONS"] # NoInst
               \/ insts["OFPIT11_CLEAR_ACTIONS"] # NoInst
       THEN Result(OFPERR_OFPBIC_UNSUP_INST, ofpact_put_END(conv.out))
       ELSE Result(OFPERR_NONE, ofpact_put_END(conv.out))

\* The part of ofpacts_pull_openflow11_instructions that follows the
\* successful pull of the region.
ParseInstructions(instructions, n_insts) ==
    LET dec == decode_openflow11_instructions(instructions, n_insts)
        insts == dec.out
        has_apply == insts["OFPIT11_APPLY_ACTIONS"] # NoInst
        w == get_actions_from_instruction(instructions,
                                          insts["OFPIT11_APPLY_ACTIONS"])
        conv == IF has_apply
                THEN ofpacts_from_openflow11(w.actions, w.n_actions, <<>>)
                ELSE Result(OFPERR_NONE, <<>>)
    IN IF dec.error # OFPERR_NONE THEN Result(dec.error, <<>>)
       ELSE IF conv.error # OFPERR_NONE THEN conv
       ELSE IF \/ insts["OFPIT11_GOTO_TABLE"] # NoInst
               \/ insts["OFPIT11_WRITE_METADATA"] # NoInst
               \/ insts["OFPIT11_WRITE_ACTIONS"] # NoInst
               \/ insts["OFPIT11_CLEAR_ACTIONS"] # NoInst
       THEN Result(OFPERR_OFPBIC_UNSUP_INST, ofpact_put_END(conv.out))
       ELSE Result(OFPERR_NONE, ofpact_put_END(conv.out))

\* Variant that leaves the buffer as the conversion left it.
ExitClear_never(r) == r.out

\* The clearing of the ofpacts buffer on error: the end of
\* ofpacts_pull_openflow10 and the label 'exit' of
\* ofpacts_pull_openflow11_instructions.
ExitClear(r) == IF r.error # OFPERR_NONE THEN <<>> ELSE r.out

(***************************************************************************)
(* Converting ofpacts to Nicira extensions.  Every operator returns the    *)
(* bytes that the C function appends to 'out'.                             *)
(***************************************************************************)
\* ofputil_put_NXAST_*: a zeroed struct with type, len, vendor, subtype
\* set; this is its first 10 bytes.
NxHeader(subtype, len) ==
    Be16(OFPAT10_VENDOR) \o Be16(len) \o NX_VENDOR_ID \o Be16(subtype)

ofpact_output_reg_to_nxast(e) ==
    NxHeader(15, 24)
    \o Be16(nxm_encode_ofs_nbits(e.d.src.ofs, e.d.src.n_bits))
    \o e.d.src.field \o Be16(e.d.max_len) \o Zeros(6)

\* Variant that chooses the form by the table only.
ofpact_resubmit_to_nxast_nohint(e) ==
    IF e.d.table_id = 255
    THEN NxHeader(1, 16) \o Be16(e.d.in_port) \o Zeros(4)
    ELSE NxHeader(14, 16) \o Be16(e.d.in_port) \o <<e.d.table_id>>
         \o Zeros(3)

ofpact_resubmit_to_nxast(e) ==
    IF e.d.table_id = 255 /\ e.compat # "NXAST_RESUBMIT_TABLE"
    THEN NxHeader(1, 16) \o Be16(e.d.in_port) \o Zeros(4)
    ELSE NxHeader(14, 16) \o Be16(e.d.in_port) \o <<e.d.table_id>>
         \o Zeros(3)

\* Variant that chooses the width by the value only.
ofpact_set_tunnel_to_nxast_nohint(e) ==
    IF is_all_zeros(Bytes(e.d.tun_id, 0, 4))
    THEN NxHeader(2, 16) \o Zeros(2) \o Bytes(e.d.tun_id, 4, 4)
    ELSE NxHeader(9, 24) \o Zeros(6) \o e.d.tun_id

ofpact_set_tunnel_to_nxast(e) ==
    IF is_all_zeros(Bytes(e.d.tun_id, 0, 4)) /\ e.compat # "NXAST_SET_TUNNEL64"
    THEN NxHeader(2, 16) \o Zeros(2) \o Bytes(e.d.tun_id, 4, 4)
    ELSE NxHeader(9, 24) \o Zeros(6) \o e.d.tun_id

\* Variant that writes no padding after the payload.
ofpact_note_to_nxast_unpadded(e) ==
    NxHeader(8, NoteOffset + e.d.length) \o e.d.data

ofpact_note_to_nxast(e) ==
    LET len == NoteOffset + e.d.length
        remainder == len % OFP_ACTION_ALIGN
        padding == IF remainder # 0 THEN OFP_ACTION_ALIGN - remainder ELSE 0
    IN NxHeader(8, len + padding) \o e.d.data \o Zeros(padding)

ofpact_controller_to_nxast(e) ==
    NxHeader(20, 16) \o Be16(e.d.max_len) \o Be16(e.d.controller_id)
    \o <<e.d.reason, 0>>

ofpact_fin_timeout_to_nxast(e) ==
    NxHeader(19, 16) \o Be16(e.d.fin_idle_timeout)
    \o Be16(e.d.fin_hard_timeout) \o Zeros(2)

ofpact_to_nxast(e) ==
    CASE e.type = "OFPACT_CONTROLLER" -> ofpact_controller_to_nxast(e)
      [] e.type = "OFPACT_OUTPUT_REG" -> ofpact_output_reg_to_nxast(e)
      [] e.type \in {"OFPACT_BUNDLE", "OFPACT_REG_MOVE", "OFPACT_REG_LOAD",
                     "OFPACT_LEARN", "OFPACT_MULTIPATH", "OFPACT_AUTOPATH"} ->
           SubCodecToOpenflow(e)
      [] e.type = "OFPACT_DEC_TTL" -> NxHeader(18, 16) \o Zeros(6)
      [] e.type = "OFPACT_SET_TUNNEL" -> ofpact_set_tunnel_to_nxast(e)
      [] e.type = "OFPACT_SET_QUEUE" ->
           NxHeader(4, 16) \o Zeros(2) \o e.d.queue_id
      [] e.type = "OFPACT_POP_QUEUE" -> NxHeader(5, 16) \o Zeros(6)
      [] e.type = "OFPACT_FIN_TIMEOUT" -> ofpact_fin_timeout_to_nxast(e)
      [] e.type = "OFPACT_RESUBMIT" -> ofpact_resubmit_to_nxast(e)
      [] e.type = "OFPACT_NOTE" -> ofpact_note_to_nxast(e)
      [] e.type = "OFPACT_EXIT" -> NxHeader(17, 16) \o Zeros(6)

(***************************************************************************)
(* Converting ofpacts to OpenFlow 1.0 and 1.1.                             *)
(***************************************************************************)
\* ofputil_put_OFPAT1x_*: type and len of a zeroed struct.
OfpHeader(type, len) == Be16(type) \o Be16(len)

ofpact_output_to_openflow10(e) ==
    OfpHeader(0, 8) \o Be16(e.d.port) \o Be16(e.d.max_len)

ofpact_enqueue_to_openflow10(e) ==
    OfpHeader(11, 16) \o Be16(e.d.port) \o Zeros(6) \o e.d.queue

ofpact_to_openflow10(e) ==
    CASE e.type = "OFPACT_OUTPUT" -> ofpact_output_to_openflow10(e)
      [] e.type = "OFPACT_ENQUEUE" -> ofpact_enqueue_to_openflow10(e)
      [] e.type = "OFPACT_SET_VLAN_VID" ->
           OfpHeader(1, 8) \o Be16(e.d.vlan_vid) \o Zeros(2)
      [] e.type = "OFPACT_SET_VLAN_PCP" ->
           OfpHeader(2, 8) \o <<e.d.vlan_pcp>> \o Zeros(3)
      [] e.type = "OFPACT_STRIP_VLAN" -> OfpHeader(3, 8) \o Zeros(4)
      [] e.type = "OFPACT_SET_ETH_SRC" ->
           OfpHeader(4, 16) \o e.d.mac \o Zeros(6)
      [] e.type = "OFPACT_SET_ETH_DST" ->
           OfpHeader(5, 16) \o e.d.mac \o Zeros(6)
      [] e.type = "OFPACT_SET_IPV4_SRC" -> OfpHeader(6, 8) \o e.d.ipv4
      [] e.type = "OFPACT_SET_IPV4_DST" -> OfpHeader(7, 8) \o e.d.ipv4
      [] e.type = "OFPACT_SET_IPV4_DSCP" ->
           OfpHeader(8, 8) \o <<e.d.dscp>> \o Zeros(3)
      [] e.type = "OFPACT_SET_L4_SRC_PORT" ->
           OfpHeader(9, 8) \o Be16(e.d.port) \o Zeros(2)
      [] e.type = "OFPACT_SET_L4_DST_PORT" ->
           OfpHeader(10, 8) \o Be16(e.d.port) \o Zeros(2)
      [] OTHER -> ofpact_to_nxast(e)

ofpact_output_to_openflow11(e) ==
    OfpHeader(0, 16) \o ofputil_port_to_ofp11(e.d.port) \o Be16(e.d.max_len)
    \o Zeros(6)

\* Variant that writes strip_vlan with its v1.0 opcode.
ofpact_to_openflow11_strip_vlan(e) ==
    CASE e.type = "OFPACT_OUTPUT" -> ofpact_output_to_openflow11(e)
      [] e.type = "OFPACT_ENQUEUE" -> <<>>
      [] e.type = "OFPACT_SET_VLAN_VID" ->
           OfpHeader(1, 8) \o Be16(e.d.vlan_vid) \o Zeros(2)
      [] e.type = "OFPACT_SET_VLAN_PCP" ->
           OfpHeader(2, 8) \o <<e.d.vlan_pcp>> \o Zeros(3)
      [] e.type = "OFPACT_STRIP_VLAN" -> OfpHeader(3, 8) \o Zeros(4)
      [] e.type = "OFPACT_SET_ETH_SRC" ->
           OfpHeader(3, 16) \o e.d.mac \o Zeros(6)
      [] e.type = "OFPACT_SET_ETH_DST" ->
           OfpHeader(4, 16) \o e.d.mac \o Zeros(6)
      [] e.type = "OFPACT_SET_IPV4_SRC" -> OfpHeader(5, 8) \o e.d.ipv4
      [] e.type = "OFPACT_SET_IPV4_DST" -> OfpHeader(6, 8) \o e.d.ipv4
      [] e.type = "OFPACT_SET_IPV4_DSCP" ->
           OfpHeader(7, 8) \o <<e.d.dscp>> \o Zeros(3)
      [] e.type = "OFPACT_SET_L4_SRC_PORT" ->
           OfpHeader(9, 8) \o Be16(e.d.port) \o Zeros(2)
      [] e.type = "OFPACT_SET_L4_DST_PORT" ->
           OfpHeader(10, 8) \o Be16(e.d.port) \o Zeros(2)
      [] OTHER -> ofpact_to_nxast(e)

ofpact_to_openflow11(e) ==
    CASE e.type = "OFPACT_OUTPUT" -> ofpact_output_to_openflow11(e)
      [] e.type = "OFPACT_ENQUEUE" -> <<>>
      [] e.type = "OFPACT_SET_VLAN_VID" ->
           OfpHeader(1, 8) \o Be16(e.d.vlan_vid) \o Zeros(2)
      [] e.type = "OFPACT_SET_VLAN_PCP" ->
           OfpHeader(2, 8) \o <<e.d.vlan_pcp>> \o Zeros(3)
      [] e.type = "OFPACT_STRIP_VLAN" -> <<>>
      [] e.type = "OFPACT_SET_ETH_SRC" ->
           OfpHeader(3, 16) \o e.d.mac \o Zeros(6)
      [] e.type = "OFPACT_SET_ETH_DST" ->
           OfpHeader(4, 16) \o e.d.mac \o Zeros(6)
      [] e.type = "OFPACT_SET_IPV4_SRC" -> OfpHeader(5, 8) \o e.d.ipv4
      [] e.type = "OFPACT_SET_IPV4_DST" -> OfpHeader(6, 8) \o e.d.ipv4
      [] e.type = "OFPACT_SET_IPV4_DSCP" ->
           OfpHeader(7, 8) \o <<e.d.dscp>> \o Zeros(3)
      [] e.type = "OFPACT_SET_L4_SRC_PORT" ->
           OfpHeader(9, 8) \o Be16(e.d.port) \o Zeros(2)
      [] e.type = "OFPACT_SET_L4_DST_PORT" ->
           OfpHeader(10, 8) \o Be16(e.d.port) \o Zeros(2)
      [] OTHER -> ofpact_to_nxast(e)

\* OFPACT_FOR_EACH: the entries before the first OFPACT_END.
RECURSIVE OFPACT_FOR_EACH(_)
OFPACT_FOR_EACH(acts) ==
    IF acts[1].type = "OFPACT_END" THEN <<>>
    ELSE <<acts[1]>> \o OFPACT_FOR_EACH(Tail(acts))

HasEnd(acts) == \E i \in 1..Len(acts) : acts[i].type = "OFPACT_END"

RECURSIVE EmitAll(_, _)
EmitAll(dialect, es) ==
    IF es = <<>> THEN <<>>
    ELSE (IF dialect = 10 THEN ofpact_to_openflow10(es[1])
          ELSE ofpact_to_openflow11(es[1]))
         \o EmitAll(dialect, Tail(es))

\* Bytes appended by ofpacts_to_openflow10.
ofpacts_to_openflow10(acts) == EmitAll(10, OFPACT_FOR_EACH(acts))

\* Variant whose len field counts the actions only.
ofpacts_to_openflow11_body_len(acts, type) ==
    LET body == EmitAll(11, OFPACT_FOR_EACH(acts)) IN
    Be16(type) \o Be16(Len(body)) \o Zeros(4) \o body

\* Bytes appended by ofpacts_to_openflow11 with type OFPIT11_APPLY_ACTIONS.
ofpacts_to_openflow11(acts, type) ==
    LET body == EmitAll(11, OFPACT_FOR_EACH(acts)) IN
    Be16(type) \o Be16(SizeofOfp11Instruction + Len(body)) \o Zeros(4)
    \o body

OFPIT11_APPLY_ACTIONS == 4

\* ofpacts_equal: same length and same bytes.
ofpacts_equal(a, b) == OfpbufSize(a) = OfpbufSize(b) /\ a = b

(***************************************************************************)
(* Checking ofpacts.  The checkers of the sub-codecs, like mf_check_src,   *)
(* give the verdict of the collaborators.                                  *)
(***************************************************************************)
\* Variant whose enqueue test has no exemption for the reserved ports.
ofpact_check___no_exemption(a, max_ports) ==
    CASE a.type = "OFPACT_OUTPUT" ->
           ofputil_check_output_port(a.d.port, max_ports)
      [] a.type = "OFPACT_ENQUEUE" ->
           IF a.d.port >= max_ports
           THEN OFPERR_OFPBAC_BAD_OUT_PORT
           ELSE OFPERR_NONE
      [] a.type = "OFPACT_OUTPUT_REG" -> mf_check_src(a.d.src)
      [] a.type \in {"OFPACT_BUNDLE", "OFPACT_REG_MOVE", "OFPACT_REG_LOAD",
                     "OFPACT_LEARN", "OFPACT_MULTIPATH",
                     "OFPACT_AUTOPATH"} -> collab
      [] OTHER -> OFPERR_NONE

ofpact_check__(a, max_ports) ==
    CASE a.type = "OFPACT_OUTPUT" ->
           ofputil_check_output_port(a.d.port, max_ports)
      [] a.type = "OFPACT_ENQUEUE" ->
           IF /\ a.d.port >= max_ports
              /\ a.d.port # OFPP_IN_PORT
              /\ a.d.port # OFPP_LOCAL
           THEN OFPERR_OFPBAC_BAD_OUT_PORT
           ELSE OFPERR_NONE
      [] a.type = "OFPACT_OUTPUT_REG" -> mf_check_src(a.d.src)
      [] a.type \in {"OFPACT_BUNDLE", "OFPACT_REG_MOVE", "OFPACT_REG_LOAD",
                     "OFPACT_LEARN", "OFPACT_MULTIPATH",
                     "OFPACT_AUTOPATH"} -> collab
      [] OTHER -> OFPERR_NONE

RECURSIVE CheckEach(_, _)
CheckEach(es, max_ports) ==
    IF es = <<>> THEN OFPERR_NONE
    ELSE LET e == ofpact_check__(es[1], max_ports) IN
         IF e # OFPERR_NONE THEN e ELSE CheckEach(Tail(es), max_ports)

ofpacts_check(acts, max_ports) ==
    CheckEach(OFPACT_FOR_EACH(acts), max_ports)

(***************************************************************************)
(* Does a list output to a port?                                           *)
(***************************************************************************)
\* Variant that does not count a controller entry.
ofpact_outputs_to_port_no_controller(a, port) ==
    CASE a.type = "OFPACT_OUTPUT" -> a.d.port = port
      [] a.type = "OFPACT_ENQUEUE" -> a.d.port = port
      [] OTHER -> FALSE

ofpact_outputs_to_port(a, port) ==
    CASE a.type = "OFPACT_OUTPUT" -> a.d.port = port
      [] a.type = "OFPACT_ENQUEUE" -> a.d.port = port
      [] a.type = "OFPACT_CONTROLLER" -> port = OFPP_CONTROLLER
      [] OTHER -> FALSE

RECURSIVE OutputsEach(_, _)
OutputsEach(es, port) ==
    IF es = <<>> THEN FALSE
    ELSE IF ofpact_outputs_to_port(es[1], port) THEN TRUE
    ELSE OutputsEach(Tail(es), port)

ofpacts_output_to_port(acts, port) ==
    OutputsEach(OFPACT_FOR_EACH(acts), port)

(***************************************************************************)
(* Formatting ofpacts.  Text is a string; the printf conversions are       *)
(* computed digit by digit.                                                *)
(***************************************************************************)
HexDigits ==
    <<"0", "1", "2", "3", "4", "5", "6", "7", "8", "9",
      "a", "b", "c", "d", "e", "f">>

\* "%02x" of a byte.
Hex02(b) == HexDigits[(b \div 16) + 1] \o HexDigits[(b % 16) + 1]

\* "%u" / "%d" of a value of up to 16 bits.
Dec(n) == ToString(n)

\* Quotient and remainder of a big-endian byte sequence divided by 10.
RECURSIVE DivMod10(_, _)
DivMod10(b, carry) ==
    IF b = <<>> THEN [q |-> <<>>, r |-> carry]
    ELSE LET v == carry * 256 + b[1]
             rest == DivMod10(Tail(b), v % 10)
         IN [q |-> <<v \div 10>> \o rest.q, r |-> rest.r]

RECURSIVE DecDigits(_)
DecDigits(b) ==
    IF is_all_zeros(b) THEN ""
    ELSE LET dm == DivMod10(b, 0) IN DecDigits(dm.q) \o HexDigits[dm.r + 1]

\* "%u" of a 32-bit value kept as 4 bytes.
Dec32(b) == IF is_all_zeros(b) THEN "0" ELSE DecDigits(b)

RECURSIVE HexDigitsOf(_)
HexDigitsOf(b) ==
    IF b = <<>> THEN ""
    ELSE IF b[1] = 0 THEN HexDigitsOf(Tail(b))
    ELSE (IF b[1] < 16 THEN HexDigits[b[1] + 1] ELSE Hex02(b[1]))
         \o (IF Len(b) = 1 THEN ""
             ELSE LET RECURSIVE Full(_)
                      Full(t) == IF t = <<>> THEN ""
                                 ELSE Hex02(t[1]) \o Full(Tail(t))
                  IN Full(Tail(b)))

\* "%#llx" of a 64-bit value kept as 8 bytes.
HexAlt64(b) == IF is_all_zeros(b) THEN "0" ELSE "0x" \o HexDigitsOf(b)

RECURSIVE Join(_, _)
Join(parts, sep) ==
    IF parts = <<>> THEN ""
    ELSE IF Len(parts) = 1 THEN parts[1]
    ELSE parts[1] \o sep \o Join(Tail(parts), sep)

OptPart(present, text) == IF present THEN <<text>> ELSE <<>>

\* ofputil_format_port: the name of a reserved port, else its number.
OFPP_NONE == 65535

ofputil_format_port(port) ==
    CASE port = OFPP_IN_PORT -> "IN_PORT"
      [] port = OFPP_TABLE -> "TABLE"
      [] port = OFPP_NORMAL -> "NORMAL"
      [] port = OFPP_FLOOD -> "FLOOD"
      [] port = OFPP_ALL -> "ALL"
      [] port = OFPP_CONTROLLER -> "CONTROLLER"
      [] port = OFPP_LOCAL -> "LOCAL"
      [] port = OFPP_NONE -> "NONE"
      [] OTHER -> Dec(port)

OFPR_ACTION == 1

ofputil_packet_in_reason_to_string(reason) ==
    CASE reason = 0 -> "no_match"
      [] reason = 1 -> "action"
      [] reason = 2 -> "invalid_ttl"
      [] OTHER -> Dec(reason)

\* mf_format_subfield: the field, then the bit range it covers.
mf_format_subfield(src) ==
    Join([i \in 1..4 |-> Hex02(src.field[i])], "")
    \o "[" \o Dec(src.ofs) \o ".." \o Dec(src.ofs + src.n_bits - 1) \o "]"

\* What autopath_from_openflow (autopath.c) stored in the entry: the port
\* is the 'id' of the nx_action_autopath, the destination its 'dst' field
\* and 'ofs_nbits'.
autopath_port(e) == Bytes(e.d.raw, 16, 4)
autopath_dst(e) ==
    [field |-> Bytes(e.d.raw, 12, 4),
     ofs |-> nxm_decode_ofs(U16(e.d.raw, 10)),
     n_bits |-> nxm_decode_n_bits(U16(e.d.raw, 10))]

\* The formatters of the sub-codecs print what their entry holds.
SubCodecFormat(name, e) ==
    name \o "(" \o Join([i \in 1..Len(e.d.raw) |-> Hex02(e.d.raw[i])], ".")
    \o ")"

UINT16_MAX == 65535

\* Variant of print_note that stops before the trailing zero bytes.
print_note_no_padding(note) ==
    LET last == IF \E i \in 1..note.length : note.data[i] # 0
                THEN CHOOSE i \in 1..note.length :
                         /\ note.data[i] # 0
                         /\ \A j \in (i + 1)..note.length : note.data[j] = 0
                ELSE 0
    IN "note:" \o Join([i \in 1..last |-> Hex02(note.data[i])], ".")

\* print_note: "note:" and the bytes of the note in two hex digits each,
\* separated by dots.
print_note(note) ==
    "note:" \o Join([i \in 1..note.length |-> Hex02(note.data[i])], ".")

print_fin_timeout(fin_timeout) ==
    "fin_timeout("
    \o Join(OptPart(fin_timeout.fin_idle_timeout # 0,
                    "idle_timeout=" \o Dec(fin_timeout.fin_idle_timeout))
            \o OptPart(fin_timeout.fin_hard_timeout # 0,
                       "hard_timeout=" \o Dec(fin_timeout.fin_hard_timeout)),
            ",")
    \o ")"

ofpact_format(a) ==
    CASE a.type = "OFPACT_OUTPUT" ->
           IF a.d.port < OFPP_MAX THEN "output:" \o Dec(a.d.port)
           ELSE ofputil_format_port(a.d.port)
                \o (IF a.d.port = OFPP_CONTROLLER
                    THEN ":" \o Dec(a.d.max_len) ELSE "")
      [] a.type = "OFPACT_CONTROLLER" ->
           IF a.d.reason = OFPR_ACTION /\ a.d.controller_id = 0
           THEN "CONTROLLER:" \o Dec(a.d.max_len)
           ELSE "controller("
                \o Join(OptPart(a.d.reason # OFPR_ACTION,
                                "reason=" \o
                                ofputil_packet_in_reason_to_string(
                                    a.d.reason))
                        \o OptPart(a.d.max_len # UINT16_MAX,
                                   "max_len=" \o Dec(a.d.max_len))
                        \o OptPart(a.d.controller_id # 0,
                                   "id=" \o Dec(a.d.controller_id)),
                        ",")
                \o ")"
      [] a.type = "OFPACT_ENQUEUE" ->
           "enqueue:" \o ofputil_format_port(a.d.port)
           \o "q" \o Dec32(a.d.queue)
      [] a.type = "OFPACT_OUTPUT_REG" ->
           "output:" \o mf_format_subfield(a.d.src)
      [] a.type = "OFPACT_BUNDLE" -> SubCodecFormat("bundle", a)
      [] a.type = "OFPACT_SET_VLAN_VID" ->
           "mod_vlan_vid:" \o Dec(a.d.vlan_vid)
      [] a.type = "OFPACT_SET_VLAN_PCP" ->
           "mod_vlan_pcp:" \o Dec(a.d.vlan_pcp)
      [] a.type = "OFPACT_STRIP_VLAN" -> "strip_vlan"
      [] a.type = "OFPACT_SET_ETH_SRC" ->
           "mod_dl_src:"
           \o Join([i \in 1..6 |-> Hex02(a.d.mac[i])], ":")
      [] a.type = "OFPACT_SET_ETH_DST" ->
           "mod_dl_dst:"
           \o Join([i \in 1..6 |-> Hex02(a.d.mac[i])], ":")
      [] a.type = "OFPACT_SET_IPV4_SRC" ->
           "mod_nw_src:" \o Join([i \in 1..4 |-> Dec(a.d.ipv4[i])], ".")
      [] a.type = "OFPACT_SET_IPV4_DST" ->
           "mod_nw_dst:" \o Join([i \in 1..4 |-> Dec(a.d.ipv4[i])], ".")
      [] a.type = "OFPACT_SET_IPV4_DSCP" -> "mod_nw_tos:" \o Dec(a.d.dscp)
      [] a.type = "OFPACT_SET_L4_SRC_PORT" -> "mod_tp_src:" \o Dec(a.d.port)
      [] a.type = "OFPACT_SET_L4_DST_PORT" -> "mod_tp_dst:" \o Dec(a.d.port)
      [] a.type = "OFPACT_REG_MOVE" -> SubCodecFormat("move", a)
      [] a.type = "OFPACT_REG_LOAD" -> SubCodecFormat("load", a)
      [] a.type = "OFPACT_DEC_TTL" -> "dec_ttl"
      [] a.type = "OFPACT_SET_TUNNEL" ->
           "set_tunnel"
           \o (IF ~is_all_zeros(Bytes(a.d.tun_id, 0, 4))
                  \/ a.compat = "NXAST_SET_TUNNEL64"
               THEN "64" ELSE "")
           \o ":" \o HexAlt64(a.d.tun_id)
      [] a.type = "OFPACT_SET_QUEUE" ->
           "set_queue:" \o Dec32(a.d.queue_id)
      [] a.type = "OFPACT_POP_QUEUE" -> "pop_queue"
      [] a.type = "OFPACT_FIN_TIMEOUT" -> print_fin_timeout(a.d)
      [] a.type = "OFPACT_RESUBMIT" ->
           IF a.d.in_port # OFPP_IN_PORT /\ a.d.table_id = 255
           THEN "resubmit:" \o Dec(a.d.in_port)
           ELSE "resubmit("
                \o (IF a.d.in_port # OFPP_IN_PORT
                    THEN ofputil_format_port(a.d.in_port) ELSE "")
                \o ","
                \o (IF a.d.table_id # 255 THEN Dec(a.d.table_id) ELSE "")
                \o ")"
      [] a.type = "OFPACT_LEARN" -> SubCodecFormat("learn", a)
      [] a.type = "OFPACT_MULTIPATH" -> SubCodecFormat("multipath", a)
      [] a.type = "OFPACT_AUTOPATH" ->
           "autopath(" \o Dec32(autopath_port(a)) \o ","
           \o mf_format_subfield(autopath_dst(a)) \o ")"
      [] a.type = "OFPACT_NOTE" -> print_note(a.d)
      [] a.type = "OFPACT_EXIT" -> "exit"

\* Text appended by ofpacts_format.
ofpacts_format(acts) ==
    "actions="
    \o (IF acts[1].type = "OFPACT_END" THEN "drop"
        ELSE LET es == OFPACT_FOR_EACH(acts)
             IN Join([i \in 1..Len(es) |-> ofpact_format(es[i])], ","))

(***************************************************************************)
(* Inputs: wire actions, well-formed and malformed, as literal bytes.      *)
(***************************************************************************)
NXH(len, subtype) == <<255, 255, 0, len, 0, 0, 35, 32, 0, subtype>>

A10_OUTPUT == <<0, 0, 0, 8, 0, 2, 0, 0>>
A10_OUTPUT_CONTROLLER == <<0, 0, 0, 8, 255, 253, 0, 128>>
A10_OUTPUT_BAD_PORT == <<0, 0, 0, 8, 255, 1, 0, 0>>
A_SET_VLAN_VID == <<0, 1, 0, 8, 0, 5, 0, 0>>
A_SET_VLAN_VID_BIT12 == <<0, 1, 0, 8, 16, 0, 0, 0>>
A_SET_VLAN_VID_BIT15 == <<0, 1, 0, 8, 128, 5, 0, 0>>
A_SET_VLAN_PCP == <<0, 2, 0, 8, 3, 0, 0, 0>>
A_SET_VLAN_PCP_BIT3 == <<0, 2, 0, 8, 8, 0, 0, 0>>
A_SET_VLAN_PCP_BIT7 == <<0, 2, 0, 8, 129, 0, 0, 0>>
A10_STRIP_VLAN == <<0, 3, 0, 8, 0, 0, 0, 0>>
A10_SET_DL_SRC == <<0, 4, 0, 16, 1, 2, 3, 4, 5, 6, 0, 0, 0, 0, 0, 0>>
A10_SET_NW_SRC == <<0, 6, 0, 8, 10, 0, 0, 1>>
A10_SET_NW_TOS == <<0, 8, 0, 8, 16, 0, 0, 0>>
A10_SET_NW_TOS_ECN == <<0, 8, 0, 8, 17, 0, 0, 0>>
A11_SET_NW_TOS == <<0, 7, 0, 8, 252, 0, 0, 0>>
A11_SET_NW_TOS_ECN == <<0, 7, 0, 8, 2, 0, 0, 0>>
A_SET_TP_DST == <<0, 10, 0, 8, 0, 80, 0, 0>>
A10_ENQUEUE == <<0, 11, 0, 16, 0, 1, 0, 0, 0, 0, 0, 0, 0, 0, 0, 7>>
A10_ENQUEUE_BAD_PORT ==
    <<0, 11, 0, 16, 255, 249, 0, 0, 0, 0, 0, 0, 0, 0, 0, 7>>
A11_OUTPUT == <<0, 0, 0, 16, 0, 0, 0, 1, 0, 0, 0, 0, 0, 0, 0, 0>>
A11_OUTPUT_CONTROLLER ==
    <<0, 0, 0, 16, 255, 255, 255, 253, 0, 128, 0, 0, 0, 0, 0, 0>>
A11_OUTPUT_BAD_PORT == <<0, 0, 0, 16, 0, 1, 0, 0, 0, 0, 0, 0, 0, 0, 0, 0>>
A_UNKNOWN_TYPE == <<0, 12, 0, 8, 0, 0, 0, 0>>
A_LEN_ZERO == <<0, 0, 0, 0, 0, 2, 0, 0>>
A_LEN_UNALIGNED == <<0, 0, 0, 12, 0, 2, 0, 0, 0, 0, 0, 0, 0, 0, 0, 0>>
A_LEN_SHORT == <<0, 0, 0, 4, 0, 2, 0, 0>>
A_LEN_BEYOND == <<0, 1, 0, 64, 0, 5, 0, 0>>
A_LEN_NOT_STRUCT == <<0, 1, 0, 16, 0, 5, 0, 0, 0, 0, 0, 0, 0, 0, 0, 0>>
NX_LEN8 == <<255, 255, 0, 8, 0, 0, 35, 32>>
NX_LEN8_BAD_VENDOR == <<255, 255, 0, 8, 0, 0, 35, 33>>
NX_BAD_VENDOR == <<255, 255, 0, 16, 0, 0, 35, 33, 0, 1, 0, 3, 0, 0, 0, 0>>
NX_SNAT == NXH(16, 0) \o <<0, 0, 0, 0, 0, 0>>
NX_DROP_SPOOFED_ARP == NXH(16, 3) \o <<0, 0, 0, 0, 0, 0>>
NX_UNKNOWN_SUBTYPE == NXH(16, 21) \o <<0, 0, 0, 0, 0, 0>>
NX_RESUBMIT == NXH(16, 1) \o <<0, 3, 9, 1, 1, 1>>
NX_RESUBMIT_TABLE == NXH(16, 14) \o <<0, 3, 5, 0, 0, 0>>
NX_RESUBMIT_TABLE_FF == NXH(16, 14) \o <<0, 3, 255, 0, 0, 0>>
NX_RESUBMIT_TABLE_PAD0 == NXH(16, 14) \o <<0, 3, 5, 1, 0, 0>>
NX_RESUBMIT_TABLE_PAD1 == NXH(16, 14) \o <<0, 3, 5, 0, 7, 0>>
NX_RESUBMIT_TABLE_PAD2 == NXH(16, 14) \o <<0, 3, 5, 0, 0, 255>>
NX_SET_TUNNEL == NXH(16, 2) \o <<0, 0, 0, 0, 0, 42>>
NX_SET_TUNNEL_MAX == NXH(16, 2) \o <<0, 0, 255, 255, 255, 255>>
NX_SET_TUNNEL_LEN24 ==
    NXH(24, 2) \o <<0, 0, 0, 0, 0, 42, 0, 0, 0, 0, 0, 0, 0, 0>>
NX_SET_TUNNEL64 ==
    NXH(24, 9) \o <<0, 0, 0, 0, 0, 0, 0, 0, 0, 0, 0, 0, 0, 42>>
NX_SET_TUNNEL64_WIDE ==
    NXH(24, 9) \o <<0, 0, 0, 0, 0, 0, 0, 0, 0, 1, 0, 0, 0, 0>>
NX_SET_QUEUE == NXH(16, 4) \o <<0, 0, 0, 0, 0, 9>>
NX_POP_QUEUE == NXH(16, 5) \o <<0, 0, 0, 0, 0, 0>>
NX_NOTE == NXH(16, 8) \o <<170, 187, 204, 0, 0, 0>>
NX_NOTE_LEN24 ==
    NXH(24, 8) \o <<1, 2, 3, 4, 5, 6, 7, 8, 9, 10, 11, 12, 13, 14>>
NX_OUTPUT_REG ==
    NXH(24, 15) \o <<0, 15, 0, 1, 0, 4, 0, 0, 0, 0, 0, 0, 0, 0>>
NX_OUTPUT_REG_ZERO(i, v) ==
    NXH(24, 15) \o <<0, 15, 0, 1, 0, 4, 0, 0>>
    \o [k \in 1..6 |-> IF k = i THEN v ELSE 0]
NX_REG_MOVE ==
    NXH(24, 6) \o <<0, 16, 0, 0, 0, 0, 0, 1, 0, 4, 0, 1, 2, 4>>
NX_BUNDLE == NXH(32, 12) \o Zeros(22)
NX_AUTOPATH ==
    NXH(24, 11) \o <<0, 15, 0, 1, 0, 4, 0, 0, 0, 7, 0, 0, 0, 0>>
NX_EXIT == NXH(16, 17) \o <<0, 0, 0, 0, 0, 0>>
NX_EXIT_LEN24 == NXH(24, 17) \o Zeros(14)
NX_DEC_TTL == NXH(16, 18) \o <<0, 0, 0, 0, 0, 0>>
NX_FIN_TIMEOUT == NXH(16, 19) \o <<0, 10, 0, 0, 0, 0>>
NX_CONTROLLER == NXH(16, 20) \o <<0, 128, 0, 1, 1, 0>>

SampleActions ==
    { A10_OUTPUT, A10_OUTPUT_CONTROLLER, A10_OUTPUT_BAD_PORT, A_SET_VLAN_VID,
      A_SET_VLAN_VID_BIT12, A_SET_VLAN_VID_BIT15, A_SET_VLAN_PCP,
      A_SET_VLAN_PCP_BIT3, A_SET_VLAN_PCP_BIT7, A10_STRIP_VLAN, A10_SET_DL_SRC,
      A10_SET_NW_SRC, A10_SET_NW_TOS, A10_SET_NW_TOS_ECN, A11_SET_NW_TOS,
      A11_SET_NW_TOS_ECN, A_SET_TP_DST, A10_ENQUEUE, A10_ENQUEUE_BAD_PORT,
      A11_OUTPUT, A11_OUTPUT_CONTROLLER, A11_OUTPUT_BAD_PORT, A_UNKNOWN_TYPE,
      A_LEN_ZERO, A_LEN_UNALIGNED, A_LEN_SHORT, A_LEN_BEYOND,
      A_LEN_NOT_STRUCT, NX_LEN8, NX_LEN8_BAD_VENDOR, NX_BAD_VENDOR, NX_SNAT,
      NX_DROP_SPOOFED_ARP, NX_UNKNOWN_SUBTYPE, NX_RESUBMIT, NX_RESUBMIT_TABLE,
      NX_RESUBMIT_TABLE_FF, NX_RESUBMIT_TABLE_PAD0, NX_RESUBMIT_TABLE_PAD1,
      NX_RESUBMIT_TABLE_PAD2, NX_SET_TUNNEL, NX_SET_TUNNEL_MAX,
      NX_SET_TUNNEL_LEN24, NX_SET_TUNNEL64, NX_SET_TUNNEL64_WIDE,
      NX_SET_QUEUE, NX_POP_QUEUE, NX_NOTE, NX_NOTE_LEN24, NX_OUTPUT_REG,
      NX_REG_MOVE, NX_BUNDLE, NX_AUTOPATH, NX_EXIT, NX_EXIT_LEN24, NX_DEC_TTL,
      NX_FIN_TIMEOUT, NX_CONTROLLER }
    \cup {NX_OUTPUT_REG_ZERO(i, 1) : i \in 1..6}
    \cup {NX_OUTPUT_REG_ZERO(6, 128)}

\* Well-formed actions that precede or follow a sample in a stream.
LeadActions == {A10_OUTPUT, A11_OUTPUT, A_SET_VLAN_VID, NX_NOTE}

RECURSIVE Streams(_, _)
Streams(units, n) ==
    IF n = 0 THEN {<<>>}
    ELSE LET shorter == Streams(units, n - 1) IN
         shorter \cup {p \o u : p \in shorter, u \in units}

ActionStreams ==
    {p \o s \o q : p \in Streams(LeadActions, MaxActions - 1),
                   s \in SampleActions \cup {<<>>},
                   q \in {<<>>, A_SET_VLAN_VID}}

\* v1.1 instructions.
I_APPLY(actions) == <<0, 4>> \o Be16(8 + Len(actions)) \o Zeros(4) \o actions
I_WRITE(actions) == <<0, 3>> \o Be16(8 + Len(actions)) \o Zeros(4) \o actions
I_GOTO_TABLE == <<0, 1, 0, 8, 1, 0, 0, 0>>
I_GOTO_TABLE_LEN16 == <<0, 1, 0, 16, 1, 0, 0, 0, 0, 0, 0, 0, 0, 0, 0, 0>>
I_WRITE_METADATA == <<0, 2, 0, 24, 0, 0, 0, 0>> \o Zeros(16)
I_WRITE_METADATA_LEN8 == <<0, 2, 0, 8, 0, 0, 0, 0>>
I_CLEAR_ACTIONS == <<0, 5, 0, 8, 0, 0, 0, 0>>
I_EXPERIMENTER == <<255, 255, 0, 8, 0, 0, 35, 32>>
I_UNKNOWN == <<0, 6, 0, 8, 0, 0, 0, 0>>
I_LEN_ZERO == <<0, 4, 0, 0, 0, 0, 0, 0>>
I_LEN_UNALIGNED == <<0, 4, 0, 12, 0, 0, 0, 0, 0, 0, 0, 0, 0, 0, 0, 0>>
I_LEN_BEYOND == <<0, 4, 0, 64, 0, 0, 0, 0>>

OtherInstructions ==
    { I_WRITE(<<>>), I_WRITE(A11_OUTPUT), I_GOTO_TABLE, I_GOTO_TABLE_LEN16,
      I_WRITE_METADATA, I_WRITE_METADATA_LEN8, I_CLEAR_ACTIONS,
      I_EXPERIMENTER, I_UNKNOWN, I_LEN_ZERO, I_LEN_UNALIGNED, I_LEN_BEYOND,
      I_APPLY(<<>>), I_APPLY(A11_OUTPUT), I_APPLY(A_SET_VLAN_VID_BIT12),
      I_APPLY(A_LEN_BEYOND), I_APPLY(NX_BAD_VENDOR) }

LeadInstructions ==
    {I_APPLY(A11_OUTPUT), I_APPLY(A_SET_VLAN_VID_BIT12), I_GOTO_TABLE}

InstructionStreams ==
    {I_APPLY(m) : m \in ActionStreams}
    \cup {p \o s : p \in Streams(LeadInstructions, MaxInsts - 1),
                   s \in OtherInstructions}

Messages == ActionStreams \cup InstructionStreams

(***************************************************************************)
(* Inputs: ofpacts entries as a caller builds them with ofpact_put_*().    *)
(***************************************************************************)
Entry(type, d) == ofpact_init(type, OfpactSize(type), d)
EntryCompat(type, d, code) == [Entry(type, d) EXCEPT !.compat = code]
NoteEntry(data) ==
    ofpact_init("OFPACT_NOTE", OfpactSize("OFPACT_NOTE") + Len(data),
                [length |-> Len(data), data |-> data])
END == Entry("OFPACT_END", <<>>)
TunId == <<0, 0, 0, 0, 0, 0, 0, 42>>
TunIdWide == <<0, 0, 0, 1, 0, 0, 0, 0>>
TunIdMax32 == <<0, 0, 0, 0, 255, 255, 255, 255>>
Reg0 == [field |-> <<0, 1, 0, 4>>, ofs |-> 0, n_bits |-> 16]

SampleEntries ==
    { Entry("OFPACT_OUTPUT", [port |-> 2, max_len |-> 0]),
      Entry("OFPACT_OUTPUT", [port |-> OFPP_CONTROLLER, max_len |-> 128]),
      Entry("OFPACT_CONTROLLER",
            [max_len |-> 128, controller_id |-> 1, reason |-> 1]),
      Entry("OFPACT_ENQUEUE", [port |-> 1, queue |-> <<0, 0, 0, 7>>]),
      Entry("OFPACT_OUTPUT_REG", [src |-> Reg0, max_len |-> 0]),
      Entry("OFPACT_REG_MOVE", [raw |-> NX_REG_MOVE]),
      Entry("OFPACT_SET_VLAN_VID", [vlan_vid |-> 5]),
      Entry("OFPACT_SET_VLAN_PCP", [vlan_pcp |-> 3]),
      Entry("OFPACT_STRIP_VLAN", <<>>),
      Entry("OFPACT_SET_ETH_SRC", [mac |-> <<1, 2, 3, 4, 5, 6>>]),
      Entry("OFPACT_SET_ETH_DST", [mac |-> <<1, 2, 3, 4, 5, 6>>]),
      Entry("OFPACT_SET_IPV4_SRC", [ipv4 |-> <<10, 0, 0, 1>>]),
      Entry("OFPACT_SET_IPV4_DST", [ipv4 |-> <<10, 0, 0, 2>>]),
      Entry("OFPACT_SET_IPV4_DSCP", [dscp |-> 16]),
      Entry("OFPACT_SET_L4_SRC_PORT", [port |-> 1024]),
      Entry("OFPACT_SET_L4_DST_PORT", [port |-> 80]),
      Entry("OFPACT_DEC_TTL", <<>>),
      Entry("OFPACT_SET_TUNNEL", [tun_id |-> TunId]),
      Entry("OFPACT_SET_TUNNEL", [tun_id |-> TunIdWide]),
      Entry("OFPACT_SET_TUNNEL", [tun_id |-> TunIdMax32]),
      EntryCompat("OFPACT_SET_TUNNEL", [tun_id |-> TunIdWide],
                  "NXAST_SET_TUNNEL"),
      EntryCompat("OFPACT_SET_TUNNEL", [tun_id |-> TunId], "NXAST_SET_TUNNEL"),
      EntryCompat("OFPACT_SET_TUNNEL", [tun_id |-> TunId],
                  "NXAST_SET_TUNNEL64"),
      EntryCompat("OFPACT_SET_TUNNEL", [tun_id |-> TunIdWide],
                  "NXAST_SET_TUNNEL64"),
      Entry("OFPACT_SET_QUEUE", [queue_id |-> <<0, 0, 0, 9>>]),
      Entry("OFPACT_POP_QUEUE", <<>>),
      Entry("OFPACT_FIN_TIMEOUT",
            [fin_idle_timeout |-> 10, fin_hard_timeout |-> 0]),
      Entry("OFPACT_RESUBMIT", [in_port |-> 3, table_id |-> 255]),
      Entry("OFPACT_RESUBMIT", [in_port |-> 3, table_id |-> 5]),
      EntryCompat("OFPACT_RESUBMIT", [in_port |-> 3, table_id |-> 255],
                  "NXAST_RESUBMIT"),
      EntryCompat("OFPACT_RESUBMIT", [in_port |-> 3, table_id |-> 255],
                  "NXAST_RESUBMIT_TABLE"),
      EntryCompat("OFPACT_RESUBMIT", [in_port |-> 3, table_id |-> 5],
                  "NXAST_RESUBMIT_TABLE"),
      EntryCompat("OFPACT_RESUBMIT", [in_port |-> 3, table_id |-> 5],
                  "NXAST_RESUBMIT"),
      NoteEntry(<<>>),
      NoteEntry(<<170, 187, 204>>),
      NoteEntry(<<1, 2, 3, 4, 5, 6, 7, 8, 9, 10, 11, 12, 13, 14>>),
      Entry("OFPACT_EXIT", <<>>) }

\* Entries that a caller can build but that the parsers or a small
\* switch do not accept.
UncheckedEntries ==
    { Entry("OFPACT_OUTPUT", [port |-> 65285, max_len |-> 0]),
      Entry("OFPACT_OUTPUT", [port |-> OFPP_LOCAL, max_len |-> 0]),
      Entry("OFPACT_ENQUEUE", [port |-> 65285, queue |-> <<0, 0, 0, 7>>]),
      Entry("OFPACT_ENQUEUE", [port |-> OFPP_LOCAL, queue |-> <<0, 0, 0, 7>>]),
      Entry("OFPACT_ENQUEUE",
            [port |-> OFPP_IN_PORT, queue |-> <<0, 0, 0, 7>>]),
      Entry("OFPACT_ENQUEUE",
            [port |-> OFPP_CONTROLLER, queue |-> <<1, 0, 0, 0>>]),
      Entry("OFPACT_SET_VLAN_VID", [vlan_vid |-> 4101]),
      Entry("OFPACT_SET_IPV4_DSCP", [dscp |-> 17]),
      Entry("OFPACT_CONTROLLER",
            [max_len |-> 65535, controller_id |-> 0, reason |-> 0]),
      Entry("OFPACT_BUNDLE", [raw |-> NX_BUNDLE]),
      Entry("OFPACT_AUTOPATH", [raw |-> NX_AUTOPATH]) }

LeadEntries ==
    { <<Entry("OFPACT_OUTPUT", [port |-> 2, max_len |-> 0])>>,
      <<NoteEntry(<<170, 187, 204, 0, 0, 0>>)>>,
      <<Entry("OFPACT_SET_VLAN_VID", [vlan_vid |-> 5])>>,
      <<Entry("OFPACT_ENQUEUE", [port |-> 4, queue |-> <<0, 0, 0, 1>>])>> }

Actlists ==
    {<<END>>}
    \cup {p \o <<e, END>> : p \in Streams(LeadEntries, MaxActions - 1),
                            e \in SampleEntries \cup UncheckedEntries}

\* What an earlier conversion left in the caller's ofpacts buffer.
StaleOfpacts == <<Entry("OFPACT_OUTPUT", [port |-> 2, max_len |-> 0]), END>>

CollabVerdicts == {OFPERR_NONE, OFPERR_OFPBAC_BAD_ARGUMENT}

LenChoices(b) == {n \in 0..(Len(b) + 8) : n % 8 = 0} \cup {4, Len(b) + 4}

\* The max_ports and port arguments that callers pass.
MaxPortsChoices == {1, 5, OFPP_MAX}
PortChoices == {2, 4, OFPP_CONTROLLER, OFPP_LOCAL}

(***************************************************************************)
(* The public functions, as results of a call on the buffers.              *)
(***************************************************************************)
Outcome(r, conv, rest) ==
    [ret |-> r, error |-> conv.error, converted |-> conv.out,
     ofpacts |-> ExitClear(conv), openflow |-> rest]

\* The two length checks that precede the conversion leave the buffer just
\* cleared.
OuterBadLen == Result(OFPERR_OFPBRC_BAD_LEN, <<>>)

\* Variant without the alignment check on the length argument.
ofpacts_pull_openflow10_unaligned(buf, actions_len) ==
    IF ~ofpbuf_can_pull(buf, actions_len)
    THEN Outcome(OFPERR_OFPBRC_BAD_LEN, OuterBadLen, buf)
    ELSE LET conv == ofpacts_from_openflow10(Bytes(buf, 0, actions_len),
                         actions_len \div OFP_ACTION_ALIGN, <<>>)
         IN Outcome(OFPERR_NONE, conv, Drop(buf, actions_len))

ofpacts_pull_openflow10(buf, actions_len) ==
    IF actions_len % OFP_ACTION_ALIGN # 0
    THEN Outcome(OFPERR_OFPBRC_BAD_LEN, OuterBadLen, buf)
    ELSE IF ~ofpbuf_can_pull(buf, actions_len)
    THEN Outcome(OFPERR_OFPBRC_BAD_LEN, OuterBadLen, buf)
    ELSE LET conv == ofpacts_from_openflow10(
                         Bytes(buf, 0, actions_len),
                         actions_len \div OFP_ACTION_ALIGN, <<>>)
         IN Outcome(OFPERR_NONE, conv, Drop(buf, actions_len))

\* Variant without the rejection of the instructions that are not
\* implemented.
ofpacts_pull_openflow11_instructions_unsup(buf, instructions_len) ==
    IF instructions_len % OFP11_INSTRUCTION_ALIGN # 0
    THEN Outcome(OFPERR_OFPBRC_BAD_LEN, OuterBadLen, buf)
    ELSE IF ~ofpbuf_can_pull(buf, instructions_len)
    THEN Outcome(OFPERR_OFPBRC_BAD_LEN, OuterBadLen, buf)
    ELSE LET r == ParseInstructions(
                      Bytes(buf, 0, instructions_len),
                      instructions_len \div OFP11_INSTRUCTION_ALIGN)
             conv == IF r.error = OFPERR_OFPBIC_UNSUP_INST
                     THEN Result(OFPERR_NONE, r.out) ELSE r
         IN Outcome(conv.error, conv, Drop(buf, instructions_len))

ofpacts_pull_openflow11_instructions(buf, instructions_len) ==
    IF instructions_len % OFP11_INSTRUCTION_ALIGN # 0
    THEN Outcome(OFPERR_OFPBRC_BAD_LEN, OuterBadLen, buf)
    ELSE IF ~ofpbuf_can_pull(buf, instructions_len)
    THEN Outcome(OFPERR_OFPBRC_BAD_LEN, OuterBadLen, buf)
    ELSE LET conv == ParseInstructions(
                         Bytes(buf, 0, instructions_len),
                         instructions_len \div OFP11_INSTRUCTION_ALIGN)
         IN Outcome(conv.error, conv, Drop(buf, instructions_len))

(***************************************************************************)
(* Specification.  A behaviour is one use of the codec: a message is       *)
(* parsed, or an ofpacts list is written out and the bytes parsed.         *)
(***************************************************************************)
NoCall ==
    [name |-> "none", prev |-> "none", len |-> 0, openflow |-> <<>>,
     ofpacts |-> <<>>, string |-> "", ret |-> OFPERR_NONE,
     error |-> OFPERR_NONE, n |-> 0]

Called(name, len) ==
    [name |-> name, prev |-> call.name, len |-> len, openflow |-> openflow,
     ofpacts |-> ofpacts, string |-> string, ret |-> ret, error |-> error,
     n |-> call.n + 1, before |-> call]

Init ==
    /\ collab \in CollabVerdicts
    /\ \/ openflow \in Messages /\ ofpacts = StaleOfpacts
       \/ openflow = <<>> /\ ofpacts \in Actlists
    /\ ret = OFPERR_NONE
    /\ error = OFPERR_NONE
    /\ converted = <<>>
    /\ call = NoCall
    /\ string = ""
    /\ outputs = FALSE

Returned(o) ==
    /\ ret' = o.ret
    /\ error' = o.error
    /\ converted' = o.converted
    /\ ofpacts' = o.ofpacts
    /\ openflow' = o.openflow

Emitters == {"ofpacts_to_openflow10", "ofpacts_to_openflow11"}
Parsers == {"ofpacts_pull_openflow10", "ofpacts_pull_openflow11_instructions"}

\* The lengths a caller passes: any, for a message that arrived; the
\* length of the buffer, for bytes written from a list that was formatted.
PullLens ==
    IF call.name \in Emitters /\ call.prev = "ofpacts_format"
    THEN {Len(openflow)}
    ELSE LenChoices(openflow)

PullOpenflow10(actions_len) ==
    /\ call.name \in {"none"} \cup Emitters
    /\ Returned(ofpacts_pull_openflow10(openflow, actions_len))
    /\ call' = Called("ofpacts_pull_openflow10", actions_len)
    /\ UNCHANGED <<collab, string, outputs>>

PullOpenflow11Instructions(instructions_len) ==
    /\ call.name \in {"none"} \cup Emitters
    /\ Returned(ofpacts_pull_openflow11_instructions(openflow,
                                                     instructions_len))
    /\ call' = Called("ofpacts_pull_openflow11_instructions",
                      instructions_len)
    /\ UNCHANGED <<collab, string, outputs>>

ToOpenflow10 ==
    /\ call.name \in {"none", "ofpacts_format"}
    /\ HasEnd(ofpacts)
    /\ openflow' = openflow \o ofpacts_to_openflow10(ofpacts)
    /\ call' = Called("ofpacts_to_openflow10", 0)
    /\ UNCHANGED <<ofpacts, ret, error, converted, collab, string, outputs>>

ToOpenflow11 ==
    /\ call.name \in {"none", "ofpacts_format"}
    /\ HasEnd(ofpacts)
    /\ openflow' = openflow
                   \o ofpacts_to_openflow11(ofpacts, OFPIT11_APPLY_ACTIONS)
    /\ call' = Called("ofpacts_to_openflow11", 0)
    /\ UNCHANGED <<ofpacts, ret, error, converted, collab, string, outputs>>

Check(max_ports) ==
    /\ call.name = "none"
    /\ HasEnd(ofpacts)
    /\ ret' = ofpacts_check(ofpacts, max_ports)
    /\ call' = Called("ofpacts_check", max_ports)
    /\ UNCHANGED <<openflow, ofpacts, error, converted, collab, string,
                   outputs>>

OutputToPort(port) ==
    /\ call.name = "none"
    /\ HasEnd(ofpacts)
    /\ outputs' = ofpacts_output_to_port(ofpacts, port)
    /\ call' = Called("ofpacts_output_to_port", port)
    /\ UNCHANGED <<openflow, ofpacts, ret, error, converted, collab,
                   string>>

Format ==
    /\ call.name \in {"none"} \cup Parsers
    /\ HasEnd(ofpacts)
    /\ string' = ofpacts_format(ofpacts)
    /\ call' = Called("ofpacts_format", 0)
    /\ UNCHANGED <<openflow, ofpacts, ret, error, converted, collab,
                   outputs>>

\* The types and lengths a helper passes to ofpact_put and ofpact_init,
\* and the bytes it has put behind the last entry when it calls
\* ofpact_update_len.
HelperTypes ==
    {"OFPACT_END", "OFPACT_OUTPUT", "OFPACT_SET_VLAN_VID", "OFPACT_NOTE"}
HelperLens(type) == {OfpactSize(type), 16}
HelperTails == {0, 3, 5}

\* ofpact_put(ofpacts, type, len): the buffer is padded to a multiple of
\* OFPACT_ALIGNTO and a zeroed entry of 'len' bytes is appended.
OfpactPut(type, len) ==
    /\ call.name = "none"
    /\ ofpacts' = ofpact_put(ofpacts, type, len, ZeroPayload(type))
    /\ call' = Called("ofpact_put", len)
    /\ UNCHANGED <<openflow, ret, error, converted, collab, string,
                   outputs>>

\* ofpact_init(ofpact, type, len) on entry i of the buffer, for a 'len'
\* that leaves the bytes after the entry as they are: the entry is zeroed
\* and given the type, no compat hint and the length.
OfpactInit(i, type, len) ==
    /\ call.name = "none"
    /\ i \in 1..Len(ofpacts)
    /\ RoundUp8(len) = RoundUp8(ofpacts[i].len)
    /\ i = Len(ofpacts) => len <= ofpacts[i].len
    /\ ofpacts' = [ofpacts EXCEPT
                      ![i] = ofpact_init(type, len, ZeroPayload(type))]
    /\ call' = Called("ofpact_init", len)
    /\ UNCHANGED <<openflow, ret, error, converted, collab, string,
                   outputs>>

\* ofpact_update_len(ofpacts, ofpacts->l2) after 'more' bytes were put
\* behind the last entry.
OfpactUpdateLen(more) ==
    /\ call.name = "none"
    /\ ofpacts # <<>>
    /\ ofpacts' = ofpact_update_len(ofpacts, OfpbufSize(ofpacts) + more)
    /\ call' = Called("ofpact_update_len", more)
    /\ UNCHANGED <<openflow, ret, error, converted, collab, string,
                   outputs>>

\* A run makes at most MaxCalls calls.
MoreCalls == call.n < MaxCalls

Next ==
    \/ MoreCalls /\ \E n \in PullLens : PullOpenflow10(n)
    \/ MoreCalls /\ \E n \in PullLens : PullOpenflow11Instructions(n)
    \/ MoreCalls /\ ToOpenflow10
    \/ MoreCalls /\ ToOpenflow11
    \/ MoreCalls /\ \E max_ports \in MaxPortsChoices : Check(max_ports)
    \/ MoreCalls /\ \E port \in PortChoices : OutputToPort(port)
    \/ MoreCalls /\ Format
    \/ MoreCalls /\ \E type \in HelperTypes :
                        \E len \in HelperLens(type) : OfpactPut(type, len)
    \/ MoreCalls /\ \E i \in 1..Len(ofpacts) :
                        \E type \in HelperTypes :
                           \E len \in HelperLens(type) :
                              OfpactInit(i, type, len)
    \/ MoreCalls /\ \E more \in HelperTails : OfpactUpdateLen(more)

Spec == Init /\ [][Next]_vars

(***************************************************************************)
(* Vocabulary of the properties: the last call and the bytes it was given. *)
(***************************************************************************)
IsPull10 == call.name = "ofpacts_pull_openflow10"
IsPull11 == call.name = "ofpacts_pull_openflow11_instructions"
IsPull == IsPull10 \/ IsPull11
Dialect == IF IsPull10 THEN 10 ELSE 11

\* The length argument passed the two outer checks, so Region was pulled.
OuterOk ==
    call.len % OFP_ACTION_ALIGN = 0 /\ call.len <= Len(call.openflow)
Region == Bytes(call.openflow, 0, call.len)

\* The framing of a v1.1 region and its APPLY_ACTIONS instruction.
Framing == decode_openflow11_instructions(Region, call.len \div 8)
ApplyOfs == Framing.out["OFPIT11_APPLY_ACTIONS"]
Framed == IsPull11 /\ OuterOk /\ Framing.error = OFPERR_NONE

\* The window of actions that the last call converted, if it got that far.
HasActionWindow ==
    IsPull /\ OuterOk /\ (IsPull11 => Framed /\ ApplyOfs # NoInst)
ActionWindow ==
    IF IsPull10 THEN Region
    ELSE get_actions_from_instruction(Region, ApplyOfs).actions

\* The first action of the window is framed correctly for the window.
HasFirstAction ==
    /\ HasActionWindow
    /\ Len(ActionWindow) >= SizeofOfpAction
    /\ action_is_valid(ActionWindow, Len(ActionWindow) \div SizeofOfpAction)
FirstAction == Bytes(ActionWindow, 0, U16(ActionWindow, 2))

\* Every action of a correctly framed window converted on its own.
RECURSIVE DecodeEach(_, _)
DecodeEach(dialect, w) ==
    IF w = <<>> THEN <<>>
    ELSE ofpact_from_openflow(dialect, Bytes(w, 0, U16(w, 2)), <<>>).out
         \o DecodeEach(dialect, Drop(w, U16(w, 2)))

WindowEntries ==
    IF HasActionWindow THEN DecodeEach(Dialect, ActionWindow) ELSE <<>>

(***************************************************************************)
(* C1.  After ofpacts_pull_openflow10 or                                   *)
(* ofpacts_pull_openflow11_instructions the ofpacts buffer is empty        *)
(* (always so when an error was detected) or holds exactly the entries     *)
(* decoded from the whole window, in wire order, followed by END; never a  *)
(* partial list.                                                           *)
(***************************************************************************)
C1_EmptyOrWholeWindowThenEnd ==
    IsPull =>
        /\ error # OFPERR_NONE => ofpacts = <<>>
        /\ ofpacts = <<>> \/ ofpacts = WindowEntries \o <<END>>

(***************************************************************************)
(* C2.  ofpacts_pull_openflow10 returns 0 only if every action of the      *)
(* window was converted, and otherwise returns the error of the failed     *)
(* conversion.                                                             *)
(***************************************************************************)
C2_Pull10ReturnsConversionError ==
    IsPull10 /\ OuterOk => ret = error

\* The fields of an entry are within the ranges that the parsers accept.
FieldValid(e) ==
    CASE e.type = "OFPACT_OUTPUT" ->
           e.d.port < OFPP_MAX
           \/ e.d.port \in {OFPP_IN_PORT, OFPP_TABLE, OFPP_NORMAL, OFPP_FLOOD,
                            OFPP_ALL, OFPP_CONTROLLER, OFPP_LOCAL}
      [] e.type = "OFPACT_ENQUEUE" ->
           e.d.port < OFPP_MAX \/ e.d.port \in {OFPP_IN_PORT, OFPP_LOCAL}
      [] e.type = "OFPACT_SET_VLAN_VID" -> e.d.vlan_vid < 4096
      [] e.type = "OFPACT_SET_VLAN_PCP" -> e.d.vlan_pcp < 8
      [] e.type = "OFPACT_SET_IPV4_DSCP" -> e.d.dscp % 4 = 0
      [] OTHER -> TRUE

\* A list of field-valid entries terminated by one END.
WellFormedList(acts) ==
    /\ acts # <<>>
    /\ \A i \in DOMAIN acts :
           IF i = Len(acts) THEN acts[i].type = "OFPACT_END"
           ELSE acts[i].type # "OFPACT_END" /\ FieldValid(acts[i])

(***************************************************************************)
(* Round trips: the last call parsed, in full, exactly the bytes that the  *)
(* call before it wrote for the list L = call.ofpacts.                     *)
(***************************************************************************)
RoundTrip10 ==
    /\ IsPull10
    /\ call.prev = "ofpacts_to_openflow10"
    /\ WellFormedList(call.ofpacts)
    /\ call.openflow = ofpacts_to_openflow10(call.ofpacts)
    /\ call.len = Len(call.openflow)

RoundTrip11 ==
    /\ IsPull11
    /\ call.prev = "ofpacts_to_openflow11"
    /\ WellFormedList(call.ofpacts)
    /\ call.openflow = ofpacts_to_openflow11(call.ofpacts,
                                             OFPIT11_APPLY_ACTIONS)
    /\ call.len = Len(call.openflow)

CollabAccepts == collab = OFPERR_NONE

HintedTypes == {"OFPACT_RESUBMIT", "OFPACT_SET_TUNNEL"}

\* The list with the compat hints of resubmit and set_tunnel forgotten.
StripCompat(acts) ==
    [i \in DOMAIN acts |->
        IF acts[i].type \in HintedTypes
        THEN [acts[i] EXCEPT !.compat = OFPUTIL_ACTION_INVALID]
        ELSE acts[i]]

\* The hints of a parsed list name the NX opcode of the right family.
HintsAreOpcodes(acts) ==
    \A i \in DOMAIN acts :
        /\ acts[i].type = "OFPACT_RESUBMIT" =>
               acts[i].compat \in {"NXAST_RESUBMIT", "NXAST_RESUBMIT_TABLE"}
        /\ acts[i].type = "OFPACT_SET_TUNNEL" =>
               acts[i].compat \in {"NXAST_SET_TUNNEL", "NXAST_SET_TUNNEL64"}

\* The list with every note payload extended by the zero bytes that pad
\* its wire action to a multiple of 8.
WirePadding(n) == RoundUp8(NoteOffset + n) - (NoteOffset + n)

PadNotes(acts) ==
    [i \in DOMAIN acts |->
        IF acts[i].type = "OFPACT_NOTE"
        THEN NoteEntry(acts[i].d.data \o Zeros(WirePadding(acts[i].d.length)))
        ELSE acts[i]]

(***************************************************************************)
(* C3 as stated.  For every list L of entries expressible in OpenFlow 1.0  *)
(* (natively or as NX actions, notes of any length included), parsing the  *)
(* bytes of ofpacts_to_openflow10(L) succeeds and yields L, up to the      *)
(* compat hints of resubmit and set_tunnel.                                *)
(***************************************************************************)
C3_RoundTrip10 ==
    RoundTrip10 /\ CollabAccepts =>
        /\ ret = OFPERR_NONE
        /\ error = OFPERR_NONE
        /\ StripCompat(ofpacts) = StripCompat(call.ofpacts)
        /\ HintsAreOpcodes(ofpacts)

(***************************************************************************)
(* C3 amended.  The round trip through OpenFlow 1.0 succeeds and yields L  *)
(* up to the compat hints, except that a note of n bytes comes back with   *)
(* its payload followed by the zero padding of its wire action, that is    *)
(* with RoundUp8(n + 10) - 10 bytes (unchanged only when n % 8 = 6).       *)
(***************************************************************************)
C3_RoundTrip10PaddedNotes ==
    RoundTrip10 /\ CollabAccepts =>
        /\ ret = OFPERR_NONE
        /\ error = OFPERR_NONE
        /\ StripCompat(ofpacts) = StripCompat(PadNotes(call.ofpacts))
        /\ HintsAreOpcodes(ofpacts)

C3_Witness ==
    /\ RoundTrip10 /\ CollabAccepts
    /\ Len(call.ofpacts) = 3
    /\ call.ofpacts[1].type = "OFPACT_OUTPUT"
    /\ call.ofpacts[2].type = "OFPACT_NOTE"
    /\ call.ofpacts[2].d.length = 3
    /\ Len(ofpacts) = 3
    /\ ofpacts[2].d.data = <<170, 187, 204, 0, 0, 0>>

(***************************************************************************)
(* C4.  For every list L without enqueue and strip_vlan, parsing the       *)
(* bytes of ofpacts_to_openflow11(L, APPLY_ACTIONS) succeeds and yields a  *)
(* list that ofpacts_equal reports as identical to L.                      *)
(***************************************************************************)
C4_RoundTrip11Equal ==
    /\ RoundTrip11 /\ CollabAccepts
    /\ \A i \in DOMAIN call.ofpacts :
           call.ofpacts[i].type \notin {"OFPACT_ENQUEUE", "OFPACT_STRIP_VLAN"}
    => ret = OFPERR_NONE /\ ofpacts_equal(ofpacts, call.ofpacts)

(***************************************************************************)
(* Truncation of an accepted OpenFlow 1.0 stream: the buffer of the last   *)
(* call starts with N bytes that convert without error, and the call was   *)
(* given a shorter length.                                                 *)
(***************************************************************************)
AcceptedLengths ==
    {N \in 0..Len(call.openflow) :
        /\ N % OFP_ACTION_ALIGN = 0
        /\ ofpacts_from_openflow10(Bytes(call.openflow, 0, N),
                                   N \div OFP_ACTION_ALIGN, <<>>).error
               = OFPERR_NONE}

LongerAccepted == {N \in AcceptedLengths : call.len < N}

\* Offsets at which the actions of an accepted stream end.
RECURSIVE ActionEnds(_, _)
ActionEnds(w, ofs) ==
    IF ofs >= Len(w) THEN {}
    ELSE {ofs + U16(w, ofs + 2)} \cup ActionEnds(w, ofs + U16(w, ofs + 2))

Boundaries(N) == {0} \cup ActionEnds(Bytes(call.openflow, 0, N), 0)

BadLenErrors == {OFPERR_OFPBRC_BAD_LEN, OFPERR_OFPBAC_BAD_LEN}

(***************************************************************************)
(* C5 as stated.  Parsing any shorter prefix of an accepted stream fails   *)
(* with BAD_LEN and leaves the ofpacts buffer cleared; no truncation       *)
(* succeeds or leaves a non-empty buffer.                                  *)
(***************************************************************************)
C5_EveryTruncationBadLen ==
    IsPull10 /\ LongerAccepted # {} =>
        /\ ret \in BadLenErrors \/ error \in BadLenErrors
        /\ ofpacts = <<>>

(***************************************************************************)
(* C5 amended.  For an accepted stream of N bytes and a length n < N: if   *)
(* n is 0 or the offset at which one of the stream's actions ends, the     *)
(* parse succeeds and yields the entries of the actions before n followed  *)
(* by END; otherwise the ofpacts buffer is cleared and the failure is a    *)
(* BAD_LEN: the request-level one, returned, when n is not a multiple of   *)
(* 8, and the action-level one, detected by the conversion, when it is.    *)
(***************************************************************************)
C5_TruncationInsideAction ==
    IsPull10 =>
        \A N \in LongerAccepted :
            LET w == Bytes(call.openflow, 0, N)
                full == ofpacts_from_openflow10(w, N \div OFP_ACTION_ALIGN,
                                                <<>>).out
                before == Cardinality({b \in ActionEnds(w, 0) :
                                          b <= call.len})
            IN IF call.len \in Boundaries(N)
               THEN /\ ret = OFPERR_NONE
                    /\ error = OFPERR_NONE
                    /\ ofpacts = SubSeq(full, 1, before) \o <<END>>
               ELSE /\ ofpacts = <<>>
                    /\ IF call.len % OFP_ACTION_ALIGN # 0
                       THEN ret = OFPERR_OFPBRC_BAD_LEN
                       ELSE error = OFPERR_OFPBAC_BAD_LEN

C5_Witness ==
    /\ IsPull10
    /\ \E N \in LongerAccepted : call.len \notin Boundaries(N)
    /\ call.len % OFP_ACTION_ALIGN = 0
    /\ converted # <<>>
    /\ error = OFPERR_OFPBAC_BAD_LEN
    /\ ofpacts = <<>>

(***************************************************************************)
(* C6.  A length argument that is not a multiple of 8, or that exceeds     *)
(* the bytes in the input buffer, makes either pull function return the    *)
(* request-level BAD_LEN, pull nothing, and leave the ofpacts buffer       *)
(* empty.                                                                  *)
(***************************************************************************)
C6_OuterLengthRejected ==
    IsPull /\ ~OuterOk =>
        /\ ret = OFPERR_OFPBRC_BAD_LEN
        /\ openflow = call.openflow
        /\ ofpacts = <<>>

C6_Witness ==
    /\ IsPull10
    /\ call.len % OFP_ACTION_ALIGN # 0
    /\ call.len < Len(call.openflow)
    /\ call.ofpacts # <<>>
    /\ ret = OFPERR_OFPBRC_BAD_LEN
    /\ openflow = call.openflow

(***************************************************************************)
(* The first action of the window is a vendor/experimenter action.         *)
(***************************************************************************)
VendorEscape == HasFirstAction /\ U16(FirstAction, 0) = OFPAT10_VENDOR

VendorOf(a) == Bytes(a, 4, 4)

KnownSubtypes == {r.subtype : r \in NxastActions}

VendorVerdicts ==
    /\ VendorOf(FirstAction) # NX_VENDOR_ID =>
           error = OFPERR_OFPBAC_BAD_VENDOR
    /\ /\ VendorOf(FirstAction) = NX_VENDOR_ID
       /\ Len(FirstAction) >= SizeofNxActionHeader
       /\ U16(FirstAction, 8) \notin KnownSubtypes
       => error = OFPERR_OFPBAC_BAD_TYPE

(***************************************************************************)
(* C7 as stated.  A vendor action that passes the window checks and whose  *)
(* vendor id is not NX_VENDOR_ID is rejected with BAD_VENDOR; one with     *)
(* NX_VENDOR_ID and a subtype outside the known set (the obsolete SNAT and *)
(* DROP_SPOOFED_ARP included) with BAD_TYPE.                               *)
(***************************************************************************)
C7_VendorDispatch == VendorEscape => VendorVerdicts

(***************************************************************************)
(* C7 amended.  A vendor action that passes the window checks is rejected  *)
(* with the action-level BAD_LEN when its declared length is below 16,     *)
(* whatever its vendor id; from 16 bytes on, a vendor id other than        *)
(* NX_VENDOR_ID is rejected with BAD_VENDOR and an unknown subtype under   *)
(* NX_VENDOR_ID with BAD_TYPE.  The verdict is the conversion's error,    *)
(* which ofpacts_pull_openflow11_instructions returns; either way the      *)
(* ofpacts buffer is left empty.                                           *)
(***************************************************************************)
C7_VendorDispatchFrom16 ==
    VendorEscape =>
        /\ IF Len(FirstAction) < SizeofNxActionHeader
           THEN error = OFPERR_OFPBAC_BAD_LEN
           ELSE VendorVerdicts
        /\ IsPull11 => ret = error
        /\ error # OFPERR_NONE => ofpacts = <<>>

C7_Witness ==
    /\ VendorEscape
    /\ Len(FirstAction) = SizeofNxActionHeader
    /\ VendorOf(FirstAction) # NX_VENDOR_ID
    /\ error = OFPERR_OFPBAC_BAD_VENDOR
    /\ ofpacts = <<>>

(***************************************************************************)
(* The first action of the window is a SET_VLAN_VID, SET_VLAN_PCP or       *)
(* SET_NW_TOS of a dialect with a value outside the field's range.         *)
(***************************************************************************)
NwTosType == IF Dialect = 10 THEN 8 ELSE 7

FieldOutOfRange ==
    /\ HasFirstAction
    /\ Len(FirstAction) = SizeofOfpAction
    /\ \/ U16(FirstAction, 0) = 1 /\ U16(FirstAction, 4) >= 4096
       \/ U16(FirstAction, 0) = 2 /\ U8(FirstAction, 4) >= 8
       \/ U16(FirstAction, 0) = NwTosType
            /\ U8(FirstAction, 4) % 4 # 0

(***************************************************************************)
(* C8.  A SET_VLAN_VID with a bit above bit 11, a SET_VLAN_PCP with a bit  *)
(* above bit 2 or a SET_NW_TOS with one of the two low bits set makes the  *)
(* parse call produce BAD_ARGUMENT, and no entry for it remains in the     *)
(* ofpacts buffer.                                                         *)
(***************************************************************************)
C8_FieldRangeRejected ==
    FieldOutOfRange =>
        /\ ret = OFPERR_OFPBAC_BAD_ARGUMENT
        /\ ofpacts = <<>>

(***************************************************************************)
(* The first action of the window is the NX action of a subtype and size.  *)
(***************************************************************************)
NxFirst(subtype, len) ==
    /\ VendorEscape
    /\ Len(FirstAction) = len
    /\ VendorOf(FirstAction) = NX_VENDOR_ID
    /\ U16(FirstAction, 8) = subtype

(***************************************************************************)
(* C9.  A nonzero reserved byte in NX OUTPUT_REG or RESUBMIT_TABLE is      *)
(* rejected with BAD_ARGUMENT before any entry is appended; the fixed-form *)
(* RESUBMIT ignores its reserved bytes and yields table_id 0xFF.           *)
(***************************************************************************)
C9_ReservedBytes ==
    /\ NxFirst(15, 24) /\ ~is_all_zeros(Bytes(FirstAction, 18, 6)) =>
           error = OFPERR_OFPBAC_BAD_ARGUMENT /\ converted = <<>>
    /\ NxFirst(14, 16) /\ ~is_all_zeros(Bytes(FirstAction, 13, 3)) =>
           error = OFPERR_OFPBAC_BAD_ARGUMENT /\ converted = <<>>
    /\ NxFirst(1, 16) =>
           /\ converted # <<>>
           /\ converted[1] =
                  EntryCompat("OFPACT_RESUBMIT",
                              [in_port |-> U16(FirstAction, 10),
                               table_id |-> 255], "NXAST_RESUBMIT")

C9_Witness ==
    /\ NxFirst(14, 16)
    /\ U8(FirstAction, 13) = 0
    /\ ~is_all_zeros(Bytes(FirstAction, 14, 2))
    /\ error = OFPERR_OFPBAC_BAD_ARGUMENT
    /\ converted = <<>>

(***************************************************************************)
(* The kinds of the well-formed instructions at the start of a region.     *)
(***************************************************************************)
RECURSIVE WellFormedKinds(_, _, _)
WellFormedKinds(region, ofs, left) ==
    IF left > 0 /\ instruction_is_valid(Drop(region, ofs), left)
    THEN LET len == U16(region, ofs + 2)
             dec == decode_openflow11_instruction(Bytes(region, ofs, len))
         IN IF dec.error # OFPERR_NONE THEN <<>>
            ELSE <<dec.code>> \o
                 WellFormedKinds(region, ofs + len,
                                 left - len \div SizeofOfp11Instruction)
    ELSE <<>>

Kinds == WellFormedKinds(Region, 0, call.len \div SizeofOfp11Instruction)

HasDuplicateKind ==
    \E i, j \in DOMAIN Kinds : i < j /\ Kinds[i] = Kinds[j]

(***************************************************************************)
(* C10.  A region in which a second well-formed instruction of a kind      *)
(* follows well-formed instructions is rejected with DUP_TYPE; the verdict *)
(* is the framing's, reached before any embedded action is converted.      *)
(***************************************************************************)
C10_DuplicateKind ==
    IsPull11 /\ OuterOk /\ HasDuplicateKind =>
        /\ ret = OFPERR_NXBIC_DUP_TYPE
        /\ error = OFPERR_NXBIC_DUP_TYPE
        /\ converted = <<>>
        /\ ofpacts = <<>>

C10_Witness ==
    /\ IsPull11 /\ OuterOk /\ HasDuplicateKind
    /\ Kinds[1] = "OFPIT11_APPLY_ACTIONS"
    /\ U16(Region, 2) = 16
    /\ ofpacts_from_openflow11(Bytes(Region, 8, 8), 1, <<>>).error
           = OFPERR_OFPBAC_BAD_ARGUMENT
    /\ ret = OFPERR_NXBIC_DUP_TYPE

(***************************************************************************)
(* A framed region holds an instruction that is recognized but not         *)
(* implemented.                                                            *)
(***************************************************************************)
UnsupportedKinds ==
    {"OFPIT11_GOTO_TABLE", "OFPIT11_WRITE_METADATA",
     "OFPIT11_WRITE_ACTIONS", "OFPIT11_CLEAR_ACTIONS"}

HasUnsupported ==
    Framed /\ \E k \in UnsupportedKinds : Framing.out[k] # NoInst

HasApply == Framed /\ ApplyOfs # NoInst

\* The verdict on the embedded actions of the APPLY_ACTIONS instruction.
EmbeddedError ==
    ofpacts_from_openflow11(ActionWindow,
                            Len(ActionWindow) \div SizeofOfpAction,
                            <<>>).error

(***************************************************************************)
(* C11 as stated.  A region that frames successfully and contains          *)
(* GOTO_TABLE, WRITE_METADATA, WRITE_ACTIONS or CLEAR_ACTIONS is rejected  *)
(* with UNSUP_INST and an empty ofpacts buffer, with or without an         *)
(* APPLY_ACTIONS instruction and whatever its embedded actions are.        *)
(***************************************************************************)
C11_UnsupportedInstructions ==
    HasUnsupported =>
        /\ ret = OFPERR_OFPBIC_UNSUP_INST
        /\ ofpacts = <<>>

(***************************************************************************)
(* C11 amended.  Such a region is always rejected with an empty ofpacts    *)
(* buffer.  The error is UNSUP_INST when APPLY_ACTIONS is absent or its    *)
(* embedded actions convert; when the embedded actions fail to convert,    *)
(* the error is that of the conversion, which is made first.               *)
(***************************************************************************)
C11_UnsupportedAfterActions ==
    HasUnsupported =>
        /\ ofpacts = <<>>
        /\ ret = IF HasApply /\ EmbeddedError # OFPERR_NONE
                 THEN EmbeddedError
                 ELSE OFPERR_OFPBIC_UNSUP_INST

C11_Witness ==
    /\ HasUnsupported /\ HasApply
    /\ EmbeddedError = OFPERR_NONE
    /\ converted # <<>>
    /\ converted[1].type = "OFPACT_OUTPUT"
    /\ ret = OFPERR_OFPBIC_UNSUP_INST
    /\ ofpacts = <<>>

(***************************************************************************)
(* C12.  The ofpacts buffer left by a successful pull holds exactly one    *)
(* END entry, and it is the last entry.                                    *)
(***************************************************************************)
EndPositions(acts) == {i \in DOMAIN acts : acts[i].type = "OFPACT_END"}

C12_ExactlyOneEndAtTail ==
    IsPull /\ OuterOk /\ ret = OFPERR_NONE /\ error = OFPERR_NONE =>
        EndPositions(ofpacts) = {Len(ofpacts)} /\ ofpacts # <<>>

(***************************************************************************)
(* A list was parsed from a buffer holding one NX NOTE action, and then    *)
(* formatted.                                                              *)
(***************************************************************************)
IsNoteAction(a) ==
    /\ Len(a) >= SizeofNxActionHeader
    /\ U16(a, 0) = OFPAT10_VENDOR
    /\ U16(a, 2) = Len(a)
    /\ VendorOf(a) = NX_VENDOR_ID
    /\ U16(a, 8) = 8

IsFormat == call.name = "ofpacts_format"

FormattedNote ==
    /\ IsFormat
    /\ call.before.name = "ofpacts_pull_openflow10"
    /\ call.before.len = Len(call.before.openflow)
    /\ IsNoteAction(call.before.openflow)

\* Scenario S3: the NOTE action of 16 bytes with payload aa bb cc.
S3_Note == <<255, 255, 0, 16, 0, 0, 35, 32, 0, 8, 170, 187, 204, 0, 0, 0>>

(***************************************************************************)
(* C13 as stated.  Parsing an NX NOTE action yields a note entry whose     *)
(* bytes are the original payload without the padding of the wire action:  *)
(* the action of scenario S3 parses to the three bytes aa bb cc and is     *)
(* formatted as note:aa.bb.cc.                                             *)
(***************************************************************************)
C13_NotePayload ==
    /\ HasFirstAction /\ FirstAction = S3_Note =>
           /\ converted # <<>>
           /\ converted[1] = NoteEntry(<<170, 187, 204>>)
    /\ FormattedNote /\ call.before.openflow = S3_Note =>
           string = "actions=note:aa.bb.cc"

(***************************************************************************)
(* C13 amended.  Parsing an NX NOTE action yields a note entry whose       *)
(* bytes are all the bytes of the action after its 10-byte header, the     *)
(* zero padding included: the action of scenario S3 parses to the six      *)
(* bytes aa bb cc 00 00 00 and is formatted as note:aa.bb.cc.00.00.00.     *)
(***************************************************************************)
C13_NoteBytesAfterHeader ==
    /\ HasFirstAction /\ IsNoteAction(FirstAction) =>
           /\ converted # <<>>
           /\ converted[1] =
                  NoteEntry(Bytes(FirstAction, NoteOffset,
                                  Len(FirstAction) - NoteOffset))
    /\ HasFirstAction /\ FirstAction = S3_Note =>
           converted[1].d = [length |-> 6,
                             data |-> <<170, 187, 204, 0, 0, 0>>]
    /\ FormattedNote =>
           LET a == call.before.openflow IN
           string = "actions=note:"
                    \o Join([i \in 1..(Len(a) - NoteOffset) |->
                                 Hex02(a[NoteOffset + i])], ".")
    /\ FormattedNote /\ call.before.openflow = S3_Note =>
           string = "actions=note:aa.bb.cc.00.00.00"

C13_Witness ==
    /\ FormattedNote
    /\ call.before.openflow = S3_Note
    /\ call.ofpacts = <<NoteEntry(<<170, 187, 204, 0, 0, 0>>), END>>
    /\ string = "actions=note:aa.bb.cc.00.00.00"

(***************************************************************************)
(* An emitter has just run: the list it was given, the entry of that list  *)
(* just before its first END, and the bytes it appended.                   *)
(***************************************************************************)
IsEmit10 == call.name = "ofpacts_to_openflow10"
IsEmit11 == call.name = "ofpacts_to_openflow11"
IsEmit == IsEmit10 \/ IsEmit11

FirstEnd(acts) ==
    CHOOSE i \in 1..Len(acts) :
        /\ acts[i].type = "OFPACT_END"
        /\ \A j \in 1..(i - 1) : acts[j].type # "OFPACT_END"

EmittedEntries == SubSeq(call.ofpacts, 1, FirstEnd(call.ofpacts) - 1)
Appended == Drop(openflow, Len(call.openflow))

LastEmittedIs(type) ==
    /\ IsEmit
    /\ EmittedEntries # <<>>
    /\ EmittedEntries[Len(EmittedEntries)].type = type

LastEmitted == EmittedEntries[Len(EmittedEntries)]

EndsWith(b, tail) ==
    /\ Len(b) >= Len(tail)
    /\ Drop(b, Len(b) - Len(tail)) = tail

(***************************************************************************)
(* C14.  A set_tunnel entry is written as the 32-bit NX SET_TUNNEL action  *)
(* exactly when its tun_id fits in 32 bits and its compat hint is not      *)
(* SET_TUNNEL64; otherwise it is written as NX SET_TUNNEL64.  Either form  *)
(* carries the whole tun_id.                                               *)
(***************************************************************************)
C14_TunnelWidth ==
    LastEmittedIs("OFPACT_SET_TUNNEL") =>
        LET tun_id == LastEmitted.d.tun_id IN
        IF is_all_zeros(Bytes(tun_id, 0, 4))
           /\ LastEmitted.compat # "NXAST_SET_TUNNEL64"
        THEN EndsWith(Appended, NXH(16, 2) \o <<0, 0>> \o Bytes(tun_id, 4, 4))
        ELSE EndsWith(Appended, NXH(24, 9) \o Zeros(6) \o tun_id)

\* A tun_id of 42 with the SET_TUNNEL64 hint was written in the wide form.
C14_Witness ==
    /\ LastEmittedIs("OFPACT_SET_TUNNEL")
    /\ LastEmitted.d.tun_id = TunId
    /\ LastEmitted.compat = "NXAST_SET_TUNNEL64"
    /\ EndsWith(Appended, NX_SET_TUNNEL64)

(***************************************************************************)
(* C15.  A resubmit entry is written as the fixed NX RESUBMIT action       *)
(* exactly when its table_id is 0xff and its compat hint is not            *)
(* RESUBMIT_TABLE; otherwise it is written as NX RESUBMIT_TABLE, which     *)
(* carries the table_id.  Both carry in_port.                              *)
(***************************************************************************)
C15_ResubmitVariant ==
    LastEmittedIs("OFPACT_RESUBMIT") =>
        LET r == LastEmitted.d IN
        IF r.table_id = 255 /\ LastEmitted.compat # "NXAST_RESUBMIT_TABLE"
        THEN /\ Len(Appended) >= 16
             /\ Bytes(Appended, Len(Appended) - 16, 12)
                    = NXH(16, 1) \o Be16(r.in_port)
        ELSE EndsWith(Appended, NXH(16, 14) \o Be16(r.in_port)
                                \o <<r.table_id, 0, 0, 0>>)

\* Table 0xff with the RESUBMIT_TABLE hint was written as RESUBMIT_TABLE.
C15_Witness ==
    /\ LastEmittedIs("OFPACT_RESUBMIT")
    /\ LastEmitted.d.table_id = 255
    /\ LastEmitted.compat = "NXAST_RESUBMIT_TABLE"
    /\ EndsWith(Appended, NX_RESUBMIT_TABLE_FF)

(***************************************************************************)
(* ofpacts_check has just run on a list with a max_ports argument.         *)
(***************************************************************************)
IsCheck == call.name = "ofpacts_check"

DelegatedKinds ==
    {"OFPACT_OUTPUT", "OFPACT_OUTPUT_REG", "OFPACT_BUNDLE", "OFPACT_LEARN",
     "OFPACT_MULTIPATH", "OFPACT_AUTOPATH", "OFPACT_REG_MOVE",
     "OFPACT_REG_LOAD"}

\* The verdict of the external checker on an entry of a delegated kind.
DelegatedVerdict(e, max_ports) ==
    IF e.type = "OFPACT_OUTPUT"
    THEN ofputil_check_output_port(e.d.port, max_ports)
    ELSE collab

\* The verdict that the claim gives for one entry.
EntryVerdict(e, max_ports) ==
    IF e.type = "OFPACT_ENQUEUE"
    THEN IF e.d.port >= max_ports /\ e.d.port \notin {OFPP_IN_PORT, OFPP_LOCAL}
         THEN OFPERR_OFPBAC_BAD_OUT_PORT
         ELSE OFPERR_NONE
    ELSE IF e.type \in DelegatedKinds
    THEN DelegatedVerdict(e, max_ports)
    ELSE OFPERR_NONE

(***************************************************************************)
(* C16.  ofpacts_check walks the entries in order up to END and returns    *)
(* the error of the first entry that fails: an enqueue entry fails with    *)
(* BAD_OUT_PORT exactly when its port is at least max_ports and is neither *)
(* IN_PORT nor LOCAL, an entry of a delegated kind has the verdict of its  *)
(* external checker, and every other entry passes.  Entries after the      *)
(* first failing one do not affect the result.                             *)
(***************************************************************************)
C16_CheckFirstFailure ==
    IsCheck =>
        LET es == SubSeq(call.ofpacts, 1, FirstEnd(call.ofpacts) - 1)
            failing == {i \in 1..Len(es) :
                           EntryVerdict(es[i], call.len) # OFPERR_NONE}
        IN /\ failing = {} => ret = OFPERR_NONE
           /\ failing # {} =>
                  LET first == CHOOSE i \in failing :
                                   \A j \in failing : i <= j
                  IN ret = EntryVerdict(es[first], call.len)
           /\ ofpacts = call.ofpacts

\* An enqueue to port 4 of a switch with one port fails first; the bundle
\* after it, which its checker rejects with another error, is not reported.
C16_Witness ==
    /\ IsCheck
    /\ call.len = 1
    /\ Len(call.ofpacts) = 3
    /\ call.ofpacts[1].type = "OFPACT_ENQUEUE"
    /\ call.ofpacts[1].d.port = 4
    /\ call.ofpacts[2].type = "OFPACT_BUNDLE"
    /\ collab = OFPERR_OFPBAC_BAD_ARGUMENT
    /\ ret = OFPERR_OFPBAC_BAD_OUT_PORT

(***************************************************************************)
(* ofpacts_output_to_port has just run on a list with a port argument.     *)
(***************************************************************************)
IsOutputToPort == call.name = "ofpacts_output_to_port"

(***************************************************************************)
(* C17.  ofpacts_output_to_port answers true exactly when, before END, an  *)
(* output entry or an enqueue entry has the port, or there is a controller *)
(* entry and the port is CONTROLLER; it answers false otherwise, so also   *)
(* for the empty list.  The list is left as it was.                        *)
(***************************************************************************)
C17_OutputsToPort ==
    IsOutputToPort =>
        LET es == SubSeq(call.ofpacts, 1, FirstEnd(call.ofpacts) - 1)
            port == call.len
        IN /\ outputs <=>
                  \/ \E i \in 1..Len(es) :
                         /\ es[i].type \in {"OFPACT_OUTPUT", "OFPACT_ENQUEUE"}
                         /\ es[i].d.port = port
                  \/ /\ port = OFPP_CONTROLLER
                     /\ \E i \in 1..Len(es) : es[i].type = "OFPACT_CONTROLLER"
           /\ call.ofpacts = <<END>> => ~outputs
           /\ ofpacts = call.ofpacts

\* A list whose only sending entry is a controller entry outputs to
\* CONTROLLER.
C17_Witness ==
    /\ IsOutputToPort
    /\ call.len = OFPP_CONTROLLER
    /\ \E i \in 1..Len(call.ofpacts) : call.ofpacts[i].type = "OFPACT_CONTROLLER"
    /\ \A i \in 1..Len(call.ofpacts) :
           call.ofpacts[i].type \notin {"OFPACT_OUTPUT", "OFPACT_ENQUEUE"}
    /\ outputs

(***************************************************************************)
(* A message was parsed and accepted, the list formatted, the list written *)
(* out in the same dialect on an empty buffer, and the bytes written       *)
(* parsed again in that dialect (ReparsedEmitted); then the second list    *)
(* was formatted too (FormattedTwice).  The record of a call holds the     *)
(* buffers and results as they were when the call was made.                *)
(***************************************************************************)
EmitterOf(parser) ==
    IF parser = "ofpacts_pull_openflow10"
    THEN "ofpacts_to_openflow10" ELSE "ofpacts_to_openflow11"

AcceptedFormattedEmitted(emit) ==
    /\ emit.n = 3
    /\ emit.name \in Emitters
    /\ emit.openflow = <<>>
    /\ emit.before.name = "ofpacts_format"
    /\ emit.before.ret = OFPERR_NONE
    /\ emit.before.error = OFPERR_NONE
    /\ emit.before.before.name \in Parsers
    /\ emit.name = EmitterOf(emit.before.before.name)

ReparsedEmitted ==
    /\ call.n = 4
    /\ call.name \in Parsers
    /\ call.len = Len(call.openflow)
    /\ AcceptedFormattedEmitted(call.before)
    /\ call.name = call.before.before.before.name

FormattedTwice ==
    /\ call.n = 5
    /\ call.name = "ofpacts_format"
    /\ call.before.name \in Parsers
    /\ call.before.len = Len(call.before.openflow)
    /\ AcceptedFormattedEmitted(call.before.before)
    /\ call.before.name = call.before.before.before.before.name

(***************************************************************************)
(* C18.  Format determinism: when a parser accepts a byte stream, the      *)
(* bytes written from the parsed list in the same dialect are accepted     *)
(* again, and the list parsed from them is formatted as the same text as   *)
(* the first list.                                                         *)
(***************************************************************************)
C18_FormatDeterminism ==
    /\ ReparsedEmitted => ret = OFPERR_NONE /\ error = OFPERR_NONE
    /\ FormattedTwice => string = call.string

\* The text of a SET_TUNNEL64 action with a small tun_id, which the hint
\* keeps in the wide form, and of a v1.1 instruction that holds a note.
C18_Witness ==
    /\ FormattedTwice
    /\ string = call.string
    /\ \/ /\ call.before.name = "ofpacts_pull_openflow10"
          /\ string = "actions=set_tunnel64:0x2a"
       \/ /\ call.before.name = "ofpacts_pull_openflow11_instructions"
          /\ string = "actions=note:aa.bb.cc.00.00.00"

(***************************************************************************)
(* C19.  ofpacts_to_openflow11 with type APPLY_ACTIONS leaves the bytes    *)
(* that were in the buffer as they were and appends one instruction: type  *)
(* APPLY_ACTIONS, a len field that counts all the bytes appended (the      *)
(* 8-byte header and the actions), and four zero pad bytes.  For a list    *)
(* with no entry before END the instruction is the header alone, len 8.    *)
(***************************************************************************)
C19_V11Envelope ==
    IsEmit11 =>
        /\ Len(openflow) >= Len(call.openflow) + SizeofOfp11Instruction
        /\ Bytes(openflow, 0, Len(call.openflow)) = call.openflow
        /\ U16(Appended, 0) = 4
        /\ U16(Appended, 2) = Len(Appended)
        /\ Bytes(Appended, 4, 4) = <<0, 0, 0, 0>>
        /\ EmittedEntries = <<>> => Appended = <<0, 4, 0, 8, 0, 0, 0, 0>>
        /\ ofpacts = call.ofpacts

\* The envelope of one output action was appended to a buffer that held
\* bytes already.
C19_Witness ==
    /\ IsEmit11
    /\ call.openflow # <<>>
    /\ Len(EmittedEntries) = 1
    /\ EmittedEntries[1].type = "OFPACT_OUTPUT"
    /\ Len(Appended) = 24
    /\ Bytes(Appended, 0, 8) = <<0, 4, 0, 24, 0, 0, 0, 0>>

(***************************************************************************)
(* The wire actions in a run of bytes, cut at the len field of each.       *)
(***************************************************************************)
RECURSIVE SplitActions(_)
SplitActions(b) ==
    IF b = <<>> THEN <<>>
    ELSE IF Len(b) < 4 \/ U16(b, 2) < 4 \/ U16(b, 2) > Len(b) THEN <<b>>
    ELSE <<Bytes(b, 0, U16(b, 2))>> \o SplitActions(Drop(b, U16(b, 2)))

\* The OpenFlow 1.1 opcode of the standard kinds.
StandardOpcode11(type) ==
    CASE type = "OFPACT_OUTPUT" -> 0
      [] type = "OFPACT_SET_VLAN_VID" -> 1
      [] type = "OFPACT_SET_VLAN_PCP" -> 2
      [] type = "OFPACT_SET_ETH_SRC" -> 3
      [] type = "OFPACT_SET_ETH_DST" -> 4
      [] type = "OFPACT_SET_IPV4_SRC" -> 5
      [] type = "OFPACT_SET_IPV4_DST" -> 6
      [] type = "OFPACT_SET_IPV4_DSCP" -> 7
      [] type = "OFPACT_SET_L4_SRC_PORT" -> 9
      [] type = "OFPACT_SET_L4_DST_PORT" -> 10
      [] OTHER -> OFPAT11_EXPERIMENTER

NotEncodable11 == {"OFPACT_ENQUEUE", "OFPACT_STRIP_VLAN"}

RECURSIVE Encodable11(_)
Encodable11(es) ==
    IF es = <<>> THEN <<>>
    ELSE (IF es[1].type \in NotEncodable11 THEN <<>> ELSE <<es[1]>>)
         \o Encodable11(Tail(es))

(***************************************************************************)
(* C20.  ofpacts_to_openflow11 writes nothing for enqueue and strip_vlan   *)
(* entries and one wire action for every other entry before END, in the    *)
(* order of the list: an action with the v1.1 opcode of the kind for the   *)
(* standard kinds, an NX vendor action for the others.  The number of      *)
(* actions written is the number of entries that are neither enqueue nor   *)
(* strip_vlan.                                                             *)
(***************************************************************************)
C20_V11SkipsNotEncodable ==
    IsEmit11 =>
        LET wire == SplitActions(Drop(Appended, SizeofOfp11Instruction))
            kept == Encodable11(EmittedEntries)
        IN /\ Len(wire) = Len(kept)
           /\ \A i \in 1..Len(kept) :
                  /\ Len(wire[i]) >= SizeofOfpAction
                  /\ U16(wire[i], 0) = StandardOpcode11(kept[i].type)
                  /\ U16(wire[i], 0) = OFPAT11_EXPERIMENTER =>
                         /\ Len(wire[i]) >= SizeofNxActionHeader
                         /\ VendorOf(wire[i]) = NX_VENDOR_ID
           /\ ret = call.ret
           /\ error = call.error

\* An enqueue entry followed by a strip_vlan entry gives no action: the
\* instruction is its header alone.
C20_Witness ==
    /\ IsEmit11
    /\ Len(EmittedEntries) = 2
    /\ EmittedEntries[1].type = "OFPACT_ENQUEUE"
    /\ EmittedEntries[2].type = "OFPACT_STRIP_VLAN"
    /\ Appended = <<0, 4, 0, 8, 0, 0, 0, 0>>

(***************************************************************************)
(* The declared length L of an action is bad for a window with R bytes     *)
(* remaining.                                                              *)
(***************************************************************************)
BadActionLength(L, R) ==
    L = 0 \/ L % 8 # 0 \/ L < 8 \/ L > R

\* Walking window w action by action, the actions before the first one
\* with a bad length: their entries if each of them converts, and
\* otherwise, or if no action has a bad length, no walk to speak of.
RECURSIVE BeforeBadLength(_, _, _)
BeforeBadLength(dialect, w, out) ==
    IF w = <<>> THEN [reached |-> FALSE, out |-> out]
    ELSE IF BadActionLength(U16(w, 2), Len(w))
    THEN [reached |-> TRUE, out |-> out]
    ELSE LET r == ofpact_from_openflow(dialect, Bytes(w, 0, U16(w, 2)), out)
         IN IF r.error # OFPERR_NONE THEN [reached |-> FALSE, out |-> out]
            ELSE BeforeBadLength(dialect, Drop(w, U16(w, 2)), r.out)

ReachedBadLength ==
    /\ HasActionWindow
    /\ BeforeBadLength(Dialect, ActionWindow, <<>>).reached

(***************************************************************************)
(* C21.  When the conversion of a window comes to an action whose declared *)
(* length is 0, not a multiple of 8, less than 8 or more than the bytes    *)
(* remaining, it stops and fails with OFPBAC_BAD_LEN: the entries made so  *)
(* far are those of the actions before it, none is made for it, and no END *)
(* is appended.                                                            *)
(***************************************************************************)
C21_PerActionLength ==
    ReachedBadLength =>
        /\ error = OFPERR_OFPBAC_BAD_LEN
        /\ converted = BeforeBadLength(Dialect, ActionWindow, <<>>).out
        /\ \A i \in 1..Len(converted) : converted[i].type # "OFPACT_END"
        /\ ofpacts = <<>>

\* An output action was converted and the action after it declares a
\* length that is not a multiple of 8.
C21_Witness ==
    /\ ReachedBadLength
    /\ Len(ActionWindow) = 16
    /\ U16(ActionWindow, 2) = 8
    /\ U16(ActionWindow, 10) % 8 # 0
    /\ Len(converted) = 1
    /\ converted[1].type = "OFPACT_OUTPUT"
    /\ error = OFPERR_OFPBAC_BAD_LEN

(***************************************************************************)
(* The layout of a parsed list in the ofpacts buffer: the offset at which  *)
(* entry i starts, ofpact_put having padded the buffer to a multiple of    *)
(* OFPACT_ALIGNTO before it appended each entry.                           *)
(***************************************************************************)
ParsedList == IsPull /\ ofpacts # <<>>


(***************************************************************************)
(* C22 as stated.  In every list built by the parsers each entry starts at *)
(* a multiple of 8 and its len is the distance from its start to the start *)
(* of the next entry, padding included; so for note entries too.           *)
(***************************************************************************)
C22_LenIsDistance ==
    ParsedList =>
        \A i \in 1..Len(ofpacts) :
            /\ StartOf(ofpacts, i) % 8 = 0
            /\ i < Len(ofpacts) =>
                   ofpacts[i].len
                       = StartOf(ofpacts, i + 1) - StartOf(ofpacts, i)

(***************************************************************************)
(* C22 amended.  In every list built by the parsers each entry starts at a *)
(* multiple of 8, and the distance from its start to the start of the next *)
(* entry is its len rounded up to a multiple of 8.  The len of a note      *)
(* entry is the offset of its data plus the length of its payload, without *)
(* padding, and is not a multiple of 8.                                    *)
(***************************************************************************)
C22_LenWithoutPadding ==
    ParsedList =>
        \A i \in 1..Len(ofpacts) :
            LET e == ofpacts[i] IN
            /\ StartOf(ofpacts, i) % 8 = 0
            /\ i < Len(ofpacts) =>
                   StartOf(ofpacts, i + 1) - StartOf(ofpacts, i)
                       = RoundUp8(e.len)
            /\ e.type = "OFPACT_NOTE" =>
                   /\ e.len = OfpactSize("OFPACT_NOTE") + e.d.length
                   /\ e.d.length = Len(e.d.data)
                   /\ e.len % 8 # 0

\* The note of scenario S3 has len 22 and the END after it starts at 24.
C22_Witness ==
    /\ ParsedList
    /\ call.openflow = S3_Note
    /\ Len(ofpacts) = 2
    /\ ofpacts[1].type = "OFPACT_NOTE"
    /\ ofpacts[1].len = 22
    /\ StartOf(ofpacts, 2) = 24

(***************************************************************************)
(* A parse succeeded on a window of actions: the wire actions of the       *)
(* window and the entries made from them, one for one.                     *)
(***************************************************************************)
ParsedWindow == ParsedList /\ HasActionWindow

WireActions == SplitActions(ActionWindow)
ParsedEntries == OFPACT_FOR_EACH(ofpacts)

IsNxAction(a) ==
    /\ Len(a) >= SizeofNxActionHeader
    /\ U16(a, 0) = 65535
    /\ VendorOf(a) = NX_VENDOR_ID

\* The compat hint that the claims name for a wire action.
HintOf(a) ==
    IF ~IsNxAction(a) THEN OFPUTIL_ACTION_INVALID
    ELSE CASE U16(a, 8) = 1 -> "NXAST_RESUBMIT"
           [] U16(a, 8) = 14 -> "NXAST_RESUBMIT_TABLE"
           [] U16(a, 8) = 2 -> "NXAST_SET_TUNNEL"
           [] U16(a, 8) = 9 -> "NXAST_SET_TUNNEL64"
           [] OTHER -> OFPUTIL_ACTION_INVALID

(***************************************************************************)
(* C23.  In every list produced by the parsers the compat of an entry is   *)
(* OFPUTIL_ACTION_INVALID, except on resubmit and set_tunnel entries,      *)
(* where it is the NX opcode of the action the entry was decoded from.  A  *)
(* resubmit with hint NXAST_RESUBMIT has table_id 0xff and a set_tunnel    *)
(* with hint NXAST_SET_TUNNEL has a tun_id of at most 32 bits.             *)
(***************************************************************************)
C23_CompatHint ==
    /\ ParsedList =>
           \A i \in 1..Len(ofpacts) :
               LET e == ofpacts[i] IN
               /\ e.type \notin {"OFPACT_RESUBMIT", "OFPACT_SET_TUNNEL"} =>
                      e.compat = OFPUTIL_ACTION_INVALID
               /\ e.type = "OFPACT_RESUBMIT" =>
                      e.compat \in {"NXAST_RESUBMIT", "NXAST_RESUBMIT_TABLE"}
               /\ e.type = "OFPACT_SET_TUNNEL" =>
                      e.compat \in {"NXAST_SET_TUNNEL", "NXAST_SET_TUNNEL64"}
               /\ e.compat = "NXAST_RESUBMIT" => e.d.table_id = 255
               /\ e.compat = "NXAST_SET_TUNNEL" =>
                      is_all_zeros(Bytes(e.d.tun_id, 0, 4))
    /\ ParsedWindow =>
           /\ Len(ParsedEntries) = Len(WireActions)
           /\ \A i \in 1..Len(ParsedEntries) :
                  ParsedEntries[i].compat = HintOf(WireActions[i])

\* An output action and a fixed-form RESUBMIT action were parsed.
C23_Witness ==
    /\ ParsedWindow
    /\ Len(ParsedEntries) = 2
    /\ ParsedEntries[1].type = "OFPACT_OUTPUT"
    /\ ParsedEntries[1].compat = OFPUTIL_ACTION_INVALID
    /\ WireActions[2] = NX_RESUBMIT
    /\ ParsedEntries[2].compat = "NXAST_RESUBMIT"
    /\ ParsedEntries[2].d.table_id = 255

(***************************************************************************)
(* A message was parsed and accepted, the list formatted and then written  *)
(* out by either emitter (EmittedParsed).  ParsedFrom is the window of     *)
(* actions of the message: the region pulled by the v1.0 parser, or the    *)
(* body of the APPLY_ACTIONS instruction that was the whole region pulled  *)
(* by the v1.1 parser.                                                     *)
(***************************************************************************)
WholeApply(pull) ==
    /\ pull.len >= SizeofOfp11Instruction
    /\ pull.len <= Len(pull.openflow)
    /\ U16(pull.openflow, 0) = 4
    /\ U16(pull.openflow, 2) = pull.len

EmittedParsed ==
    /\ IsEmit
    /\ call.n = 3
    /\ call.before.name = "ofpacts_format"
    /\ call.before.ret = OFPERR_NONE
    /\ call.before.error = OFPERR_NONE
    /\ call.before.before.name \in Parsers
    /\ call.before.before.name = "ofpacts_pull_openflow11_instructions" =>
           WholeApply(call.before.before)

ParsedFrom ==
    LET pull == call.before.before IN
    IF pull.name = "ofpacts_pull_openflow10"
    THEN Bytes(pull.openflow, 0, pull.len)
    ELSE Bytes(pull.openflow, SizeofOfp11Instruction,
               pull.len - SizeofOfp11Instruction)

LastParsedFrom == SplitActions(ParsedFrom)[Len(SplitActions(ParsedFrom))]

\* The last action of the message was one of the four NX actions that
\* have two spellings.
LastWasSpelled ==
    /\ EmittedParsed
    /\ ParsedFrom # <<>>
    /\ IsNxAction(LastParsedFrom)
    /\ U16(LastParsedFrom, 8) \in {1, 14, 2, 9}

(***************************************************************************)
(* C24.  When an accepted NX RESUBMIT, RESUBMIT_TABLE, SET_TUNNEL or       *)
(* SET_TUNNEL64 action is parsed and the entry is emitted by either        *)
(* emitter, the action written has the subtype of the one parsed and the   *)
(* same in_port and table, or the same tun_id: RESUBMIT_TABLE with table   *)
(* 0xff stays RESUBMIT_TABLE and SET_TUNNEL64 with a small id stays        *)
(* SET_TUNNEL64.                                                           *)
(***************************************************************************)
C24_WireSpellingKept ==
    LastWasSpelled =>
        LET a == LastParsedFrom
            n == Len(a)
            w == Drop(Appended, Len(Appended) - n)
        IN /\ Len(Appended) >= n
           /\ IsNxAction(w)
           /\ U16(w, 2) = n
           /\ U16(w, 8) = U16(a, 8)
           /\ U16(a, 8) \in {1, 14} => U16(w, 10) = U16(a, 10)
           /\ U16(a, 8) = 14 => w[13] = a[13]
           /\ U16(a, 8) = 2 => Bytes(w, 12, 4) = Bytes(a, 12, 4)
           /\ U16(a, 8) = 9 => Bytes(w, 16, 8) = Bytes(a, 16, 8)

\* RESUBMIT_TABLE with table 0xff was parsed and written out again as
\* RESUBMIT_TABLE.
C24_Witness ==
    /\ LastWasSpelled
    /\ LastParsedFrom = NX_RESUBMIT_TABLE_FF
    /\ EndsWith(Appended, NX_RESUBMIT_TABLE_FF)

(***************************************************************************)
(* The bytes written by the v1.0 emitter on an empty buffer for a list     *)
(* that holds one note entry were parsed whole by the v1.0 parser.         *)
(***************************************************************************)
ReparsedNote ==
    /\ IsPull10
    /\ call.before.name = "ofpacts_to_openflow10"
    /\ call.before.openflow = <<>>
    /\ call.len = Len(call.openflow)
    /\ Len(call.before.ofpacts) = 2
    /\ call.before.ofpacts[1].type = "OFPACT_NOTE"

(***************************************************************************)
(* C25.  For a note entry with a payload of n bytes the emitters append    *)
(* the 10-byte NX NOTE header, the n bytes unchanged and zero bytes up to  *)
(* a multiple of 8: the size appended is the smallest multiple of 8 that   *)
(* is at least 10 + n, so at least 16, and is the value of the len field.  *)
(* Parsing the action gives a note of len - 10 bytes.                      *)
(***************************************************************************)
C25_NoteEmission ==
    /\ LastEmittedIs("OFPACT_NOTE") =>
           LET n == LastEmitted.d.length
               size == CHOOSE m \in 16..(n + 24) :
                           /\ m % 8 = 0
                           /\ m >= 10 + n
                           /\ \A k \in 16..(n + 24) :
                                  k % 8 = 0 /\ k >= 10 + n => m <= k
           IN EndsWith(Appended,
                       NXH(size, 8) \o LastEmitted.d.data
                       \o Zeros(size - 10 - n))
    /\ ReparsedNote =>
           LET n == call.before.ofpacts[1].d.length IN
           /\ error = OFPERR_NONE
           /\ Len(ofpacts) = 2
           /\ ofpacts[1].type = "OFPACT_NOTE"
           /\ ofpacts[1].d.length = U16(call.openflow, 2) - 10
           /\ ofpacts[1].d.data = Bytes(call.openflow, 10, Len(call.openflow) - 10)
           /\ Bytes(ofpacts[1].d.data, 0, n) = call.before.ofpacts[1].d.data

\* A note of three bytes was written as an action of 16 bytes, three of
\* them padding, and parsed back as a note of six bytes.
C25_Witness ==
    /\ ReparsedNote
    /\ call.before.ofpacts[1].d.data = <<170, 187, 204>>
    /\ call.openflow = S3_Note
    /\ ofpacts[1].d.length = 6

(***************************************************************************)
(* The first instruction of the region pulled by the v1.1 parser is of a   *)
(* kind that the instruction table declares not extensible, and its        *)
(* length is a multiple of 8 that fits the region but is not the size of   *)
(* the struct of its kind.                                                 *)
(***************************************************************************)
FixedInstructionSize(type) ==
    CASE type = 1 -> 8
      [] type = 2 -> 24
      [] type = 5 -> 8

FirstIsFixedKind ==
    /\ IsPull11
    /\ OuterOk
    /\ call.len >= SizeofOfp11Instruction
    /\ U16(Region, 0) \in {1, 2, 5}

FixedKindOtherSize ==
    /\ FirstIsFixedKind
    /\ U16(Region, 2) % 8 = 0
    /\ U16(Region, 2) >= 8
    /\ U16(Region, 2) <= call.len
    /\ U16(Region, 2) # FixedInstructionSize(U16(Region, 0))

InstructionBadLen ==
    {OFPERR_OFPBAC_BAD_LEN, OFPERR_OFPBIC_BAD_LEN, OFPERR_OFPBRC_BAD_LEN}

(***************************************************************************)
(* C26.  The instruction framer accepts a GOTO_TABLE, WRITE_METADATA or    *)
(* CLEAR_ACTIONS instruction only when its length is exactly the size of   *)
(* the struct of its kind: with any other 8-aligned length that fits the   *)
(* region the framing fails, and the parse returns, a BAD_LEN error.       *)
(***************************************************************************)
C26_FixedSizeInstructions ==
    FixedKindOtherSize =>
        /\ Framing.error \in InstructionBadLen
        /\ ret \in InstructionBadLen
        /\ ofpacts = <<>>

(***************************************************************************)
(* A trace of a loop over a window of 'size' bytes is bounded: at most     *)
(* size / 8 iterations, the units left always positive when an action or   *)
(* instruction is looked at, equal to what remains of the window and       *)
(* strictly less than the time before, and nothing read at or beyond the   *)
(* end of the window.                                                      *)
(***************************************************************************)
BoundedTrace(t, size) ==
    /\ Cardinality({i \in 1..Len(t) : t[i].valid}) <= size \div 8
    /\ \A i \in 1..Len(t) :
           /\ t[i].left > 0
           /\ t[i].left * 8 = size - t[i].ofs
           /\ t[i].ofs + t[i].read <= size
           /\ i > 1 => t[i].left < t[i - 1].left
           /\ ~t[i].valid => i = Len(t)

ActionsLooped ==
    ActionTrace(Dialect, ActionWindow, 0,
                Len(ActionWindow) \div SizeofOfpAction)

InstructionsLooped ==
    InstructionTrace(Region, 0, call.len \div SizeofOfp11Instruction, NoInsts)

(***************************************************************************)
(* C27.  On every window of n units of 8 bytes the action loop and the     *)
(* instruction loop make at most n iterations, the count of units left     *)
(* decreasing at each and never passing below zero, and no header or body  *)
(* of an action or instruction is read at or beyond the end of the window: *)
(* not the vendor id nor the NX subtype of a vendor action either.         *)
(***************************************************************************)
C27_BoundedIteration ==
    /\ HasActionWindow =>
           BoundedTrace(ActionsLooped, Len(ActionWindow))
    /\ IsPull11 /\ OuterOk => BoundedTrace(InstructionsLooped, call.len)

\* The last action of a window of two is a vendor action of 8 bytes: its
\* vendor id is the end of the window and it has no subtype field.
C27_Witness ==
    /\ HasActionWindow
    /\ Len(ActionWindow) = 16
    /\ Len(ActionsLooped) = 2
    /\ ActionsLooped[2].valid
    /\ ActionsLooped[2].ofs = 8
    /\ U16(ActionWindow, 8) = 65535
    /\ ActionsLooped[2].read = 4
    /\ error = OFPERR_OFPBAC_BAD_LEN

====
